---- MODULE Spec2Model ----
(***************************************************************************)
(* Model of the legacy-library export engine, ShamelaExporter              *)
(* (src/unnamed/part_006): the stores it reads, alias resolution           *)
(* (getPageTexts), the per-book export (exportBook, exportBookToMemory),   *)
(* the batch driver (exportBooks) and the command line entry point (main). *)
(*                                                                         *)
(* Java strings are sequences of one-character strings; a null reference   *)
(* is the value Null.                                                      *)
(***************************************************************************)
EXTENDS Integers, Sequences, FiniteSets, TLC

VARIABLES
    catalog,     \* master.db: book id -> [name]
    pages,       \* <id>.db page table: book id -> sequence of [id, part], ordered by id
    aliases,     \* <id>.db alias table: book id -> (this page id -> <<donor book, donor page>>)
    index,       \* page Lucene index: <<book id, page id>> -> [body, foot]
    betakas,     \* book Lucene index: book id -> body_store of the book's document
    args,        \* command line: [mode, ids]
    pc,          \* position of main
    opens,       \* handle -> number of times it was opened
    closes,      \* handle -> number of times it was closed
    bookIds,     \* the list exportBooks iterates
    i,           \* exportBooks: number of list entries attempted so far
    success,     \* exportBooks: success counter
    errors,      \* exportBooks: recorded failure messages
    dirs,        \* output file system: directories created
    files,       \* output file system: <<directory, file name>> -> document
    stdout,      \* lines printed to System.out
    stderr,      \* lines printed to System.err
    exitCode,    \* process exit status, -1 while running
    raised,      \* main: the exception leaving the try block, <<>> if none
    faults,      \* number of storage faults injected so far
    attempts,    \* history: one record per book export attempted
    fmtIn,       \* formatText: the argument of the call
    fmt,         \* formatText: the local variable text
    fmtStep      \* formatText: the number of steps done

stores == <<catalog, pages, aliases, index, betakas>>
fmtVars == <<fmtIn, fmt, fmtStep>>
vars == <<catalog, pages, aliases, index, betakas, args, pc, opens, closes, bookIds, i,
          success, errors, dirs, files, stdout, stderr, exitCode, raised, faults, attempts,
          fmtIn, fmt, fmtStep>>

-----------------------------------------------------------------------------
(* Bounds *)

\* longest list of book ids given on the command line
MaxBatch == 3
\* most alias rows in the stores of SpecStores
MaxAliases == 2
\* most index documents missing or blank in the stores of SpecStores
MaxMissing == 1
\* most storage faults (failed open, read, write or close) in one run
MaxFaults == 1
\* longest text given to formatText, in tokens, when every token is free
MaxText == 4
\* most digits of a parenthesized number in the texts given to formatText
MaxDigits == 4
\* longest free body text of the page of SpecPage, in tokens
MaxPageText == 3
\* the pages of the book of SpecGate
MaxPages == 11
\* longest text of letters, line breaks and separator lines given to formatText
MaxLines == 6
\* most units (a letter, a space, a line feed, a separator line, a reference)
\* of the texts of references given to formatText
MaxUnits == 4

-----------------------------------------------------------------------------
(* Values *)

Null == <<"NULL">>

EmptyMap == [x \in {} |-> x]

Digit(d) == CASE d = 0 -> "0" [] d = 1 -> "1" [] d = 2 -> "2" [] d = 3 -> "3"
              [] d = 4 -> "4" [] d = 5 -> "5" [] d = 6 -> "6" [] d = 7 -> "7"
              [] d = 8 -> "8" [] d = 9 -> "9"

\* String.valueOf(n) for n >= 0
RECURSIVE IntToString(_)
IntToString(n) == IF n < 10 THEN <<Digit(n)>>
                  ELSE IntToString(n \div 10) \o <<Digit(n % 10)>>

\* the body and footnote text stored for page p of book b
BodyOf(b, p) == <<"b">> \o IntToString(b) \o <<"-">> \o IntToString(p)
FootOf(b, p) == <<"f">> \o IntToString(b) \o <<"-">> \o IntToString(p)

\* the documents an index can hold under key "<b>-<p>"
Doc(kind, b, p) ==
    CASE kind = "both"  -> [body |-> BodyOf(b, p), foot |-> FootOf(b, p)]
      [] kind = "body"  -> [body |-> BodyOf(b, p), foot |-> Null]
      [] kind = "foot"  -> [body |-> <<>>,         foot |-> FootOf(b, p)]
      [] kind = "blank" -> [body |-> <<>>,         foot |-> Null]

SeqToSet(s) == {s[k] : k \in 1..Len(s)}

\* the sequences without repetition that enumerate the set S
Orders(S) == {s \in [1..Cardinality(S) -> S] : SeqToSet(s) = S}

-----------------------------------------------------------------------------
(* Storage faults: which read or write of the current operation fails *)

NoFault == [kind |-> "none", at |-> 0]

-----------------------------------------------------------------------------
(* TextIndexReader and AliasResolver *)

\* getPageTextsForBook: the documents whose id has the prefix "<b>-"
GetPageTextsForBook(b) ==
    [p \in {k[2] : k \in {kk \in DOMAIN index : kk[1] = b}} |-> index[<<b, p>>]]

\* aliasesByBook.keySet(): the donor books of an alias table
DonorBooks(al) == {al[p][1] : p \in DOMAIN al}

\* RemapGroup with putIfAbsent in place of put: a direct document is kept
RemapGroup_KeepDirect(texts, al, donor) ==
    LET aliasTexts == GetPageTextsForBook(donor)
        hit == {p \in DOMAIN al : /\ al[p][1] = donor
                                  /\ al[p][2] \in DOMAIN aliasTexts
                                  /\ p \notin DOMAIN texts}
    IN  [p \in DOMAIN texts \cup hit |->
            IF p \in hit THEN aliasTexts[al[p][2]] ELSE texts[p]]

\* RemapGroup reading the donor's document under this book's page id
RemapGroup_SamePage(texts, al, donor) ==
    LET aliasTexts == GetPageTextsForBook(donor)
        hit == {p \in DOMAIN al : al[p][1] = donor /\ p \in DOMAIN aliasTexts}
    IN  [p \in DOMAIN texts \cup hit |-> IF p \in hit THEN aliasTexts[p] ELSE texts[p]]

\* RemapGroup with the two page ids of a mapping swapped: the content is put
\* under the donor's page id
RemapGroup_DonorKey(texts, al, donor) ==
    LET aliasTexts == GetPageTextsForBook(donor)
        hit == {al[p][2] : p \in {q \in DOMAIN al : /\ al[q][1] = donor
                                                     /\ al[q][2] \in DOMAIN aliasTexts}}
    IN  [p \in DOMAIN texts \cup hit |-> IF p \in hit THEN aliasTexts[p] ELSE texts[p]]

\* the remap loop of one donor group: texts.put(thisPageId, content) for every
\* alias of the group whose donor page has a document
RemapGroup(texts, al, donor) ==
    LET aliasTexts == GetPageTextsForBook(donor)
        hit == {p \in DOMAIN al : al[p][1] = donor /\ al[p][2] \in DOMAIN aliasTexts}
    IN  [p \in DOMAIN texts \cup hit |->
            IF p \in hit THEN aliasTexts[al[p][2]] ELSE texts[p]]

\* RemapDonors without the grouping: one lookup per alias row
RECURSIVE RemapDonors_PerAlias(_, _, _, _, _)
RemapDonors_PerAlias(texts, al, order, k, failAt) ==
    IF k > Len(order) THEN [texts |-> texts, lookups |-> <<>>, threw |-> FALSE]
    ELSE IF failAt = k + 1
         THEN [texts |-> texts, lookups |-> <<order[k]>>, threw |-> TRUE]
         ELSE LET rest == RemapDonors_PerAlias(RemapGroup(texts, al, order[k]), al,
                                               order, k + 1, failAt)
                  rows == Cardinality({p \in DOMAIN al : al[p][1] = order[k]})
              IN  [rest EXCEPT !.lookups = [j \in 1..rows |-> order[k]] \o @]

\* the loop over aliasesByBook.entrySet(), in iteration order `order`; the
\* lookup numbered failAt (the book's own lookup is number 1) throws
RECURSIVE RemapDonors(_, _, _, _, _)
RemapDonors(texts, al, order, k, failAt) ==
    IF k > Len(order) THEN [texts |-> texts, lookups |-> <<>>, threw |-> FALSE]
    ELSE IF failAt = k + 1
         THEN [texts |-> texts, lookups |-> <<order[k]>>, threw |-> TRUE]
         ELSE LET rest == RemapDonors(RemapGroup(texts, al, order[k]), al, order,
                                      k + 1, failAt)
              IN  [rest EXCEPT !.lookups = <<order[k]>> \o @]

\* getPageTexts(b): lookups is the sequence of getPageTextsForBook calls issued
GetPageTexts(b, fault, order) ==
    LET direct == GetPageTextsForBook(b)
        al == aliases[b]
    IN  IF fault.kind = "indexIO" /\ fault.at = 1
        THEN [texts |-> EmptyMap, lookups |-> <<b>>, threw |-> TRUE,
              out |-> <<>>, err |-> <<>>]
        ELSE IF fault.kind = "aliasSql"
        THEN [texts |-> direct, lookups |-> <<b>>, threw |-> FALSE,
              out |-> <<>>, err |-> <<<<"Warning: Could not load aliases", b>>>>]
        ELSE IF DOMAIN al = {}
        THEN [texts |-> direct, lookups |-> <<b>>, threw |-> FALSE,
              out |-> <<>>, err |-> <<>>]
        ELSE LET r == RemapDonors(direct, al, order, 1,
                                  IF fault.kind = "indexIO" THEN fault.at ELSE 0)
             IN  [texts |-> r.texts, lookups |-> <<b>> \o r.lookups,
                  threw |-> r.threw,
                  out |-> IF r.threw THEN <<>>
                          ELSE <<<<"Loaded aliased pages", Cardinality(DOMAIN al),
                                   Cardinality(DonorBooks(al))>>>>,
                  err |-> <<>>]

-----------------------------------------------------------------------------
(* DocumentAssembler *)

IsDigit(c) == c \in {"0", "1", "2", "3", "4", "5", "6", "7", "8", "9"}

DigitValue(c) == CHOOSE d \in 0..9 : Digit(d) = c

\* partName.matches("\\d+")
IsNumeric(partName) ==
    /\ partName # Null
    /\ Len(partName) > 0
    /\ \A k \in 1..Len(partName) : IsDigit(partName[k])

RECURSIVE DecimalValue(_)
DecimalValue(s) == IF Len(s) = 0 THEN 0
                   ELSE 10 * DecimalValue(SubSeq(s, 1, Len(s) - 1)) + DigitValue(s[Len(s)])

RECURSIVE StripZeros(_)
StripZeros(s) == IF Len(s) > 1 /\ Head(s) = "0" THEN StripZeros(Tail(s)) ELSE s

\* the decimal digits of Integer.MAX_VALUE
IntegerMaxDigits == <<"2", "1", "4", "7", "4", "8", "3", "6", "4", "7">>

\* s and t are digit strings of the same length and s > t
RECURSIVE DigitsGreater(_, _)
DigitsGreater(s, t) ==
    IF Len(s) = 0 THEN FALSE
    ELSE IF Head(s) # Head(t) THEN DigitValue(Head(s)) > DigitValue(Head(t))
         ELSE DigitsGreater(Tail(s), Tail(t))

\* Integer.parseInt(s) throws NumberFormatException for the digit string s
ParseIntThrows(s) ==
    /\ IsNumeric(s)
    /\ LET d == StripZeros(s)
       IN  \/ Len(d) > Len(IntegerMaxDigits)
           \/ Len(d) = Len(IntegerMaxDigits) /\ DigitsGreater(d, IntegerMaxDigits)

\* FileName without the zero padding
FileName_NoPad(fileCounter) == IntToString(fileCounter) \o <<".", "h", "t", "m">>

\* String.format("%03d.htm", fileCounter)
FileName(fileCounter) ==
    LET s == IntToString(fileCounter)
        pad == IF Len(s) = 1 THEN <<"0", "0">> ELSE IF Len(s) = 2 THEN <<"0">> ELSE <<>>
    IN  pad \o s \o <<".", "h", "t", "m">>

-----------------------------------------------------------------------------
(* Text: java.util.regex on sequences.  A text is a sequence of tokens; a   *)
(* token is one character ("a", "(", "U+0651" for the character U+0651) or  *)
(* one fragment of markup that the patterns of formatText treat as a unit   *)
(* ("</p>", "<sup>").  A pattern is a sequence of elements, each a set of    *)
(* tokens with a greedy quantifier; every element is a capturing group.     *)

\* one pattern element: a token of the set `in`, quantified by q:
\* "1" exactly one, "?" at most one, "+" one or more, "*" any number,
\* "1-2" one or two
El(in, q) == [in |-> in, q |-> q]

QMin(q) == IF q \in {"?", "*"} THEN 0 ELSE 1
QMax(q, text) == CASE q \in {"1", "?"} -> 1 [] q = "1-2" -> 2 [] OTHER -> Len(text)

\* a pattern: anchor "any" (no anchor), "start" (^) or "startOr" (the first
\* element may instead be the start of the text, as in (^|x)); notAfter is
\* the negative lookbehind, a set of tokens
Pat(anchor, notAfter, elems) == [anchor |-> anchor, notAfter |-> notAfter, elems |-> elems]

\* replacement items: a literal text or a group reference $k
Lit(seq) == [g |-> 0, lit |-> seq]
Grp(k) == [g |-> k, lit |-> <<>>]

\* the number of consecutive tokens of `set` from position pos, at most max
RECURSIVE Span(_, _, _, _)
Span(text, pos, set, max) ==
    IF max = 0 \/ pos > Len(text) \/ text[pos] \notin set THEN 0
    ELSE 1 + Span(text, pos + 1, set, max - 1)

NoMatch == <<-1>>

\* the lengths of the groups k, k+1, ... matched from position pos, or NoMatch.
\* An element followed by tokens of its own set never gives back what it
\* took: no pattern of the exporter needs backtracking.
RECURSIVE MatchFrom(_, _, _, _)

\* the length n of group k before the lengths of the groups after it
Matched(n, rest) == IF rest = NoMatch THEN NoMatch ELSE <<n>> \o rest

\* element k has taken n tokens from position pos
MatchRest(text, pos, elems, k, n) ==
    IF n < QMin(elems[k].q) THEN NoMatch
    ELSE Matched(n, MatchFrom(text, pos + n, elems, k + 1))

MatchFrom(text, pos, elems, k) ==
    IF k > Len(elems) THEN <<>>
    ELSE MatchRest(text, pos, elems, k, Span(text, pos, elems[k].in, QMax(elems[k].q, text)))

\* the match m of the elements of pat at position pos, under the anchor and
\* the lookbehind of pat
Anchored(text, pos, pat, m) ==
    IF pos > 1 /\ text[pos - 1] \in pat.notAfter THEN NoMatch
    ELSE IF pat.anchor = "start" /\ pos # 1 THEN NoMatch
    ELSE IF pat.anchor = "startOr" /\ m # NoMatch /\ m[1] = 0 /\ pos # 1 THEN NoMatch
    ELSE m

\* the group lengths of the match of pat at position pos, or NoMatch
MatchAt(text, pos, pat) == Anchored(text, pos, pat, MatchFrom(text, pos, pat.elems, 1))

RECURSIVE SumLens(_)
SumLens(lens) == IF Len(lens) = 0 THEN 0 ELSE Head(lens) + SumLens(Tail(lens))

\* the text of group k of a match at position pos
GroupText(text, pos, lens, k) ==
    SubSeq(text, pos + SumLens(SubSeq(lens, 1, k - 1)), pos + SumLens(SubSeq(lens, 1, k)) - 1)

\* the replacement string of a match
RECURSIVE Expand(_, _, _, _)
Expand(text, pos, lens, tpl) ==
    IF Len(tpl) = 0 THEN <<>>
    ELSE (IF Head(tpl).g = 0 THEN Head(tpl).lit ELSE GroupText(text, pos, lens, Head(tpl).g))
         \o Expand(text, pos, lens, Tail(tpl))

\* Matcher.replaceAll / replaceFirst from position pos on: matches are found
\* left to right and do not overlap
RECURSIVE ReplaceFrom(_, _, _, _, _)

\* the text from position pos on, m being the match at pos
ReplaceMatch(text, pos, pat, tpl, all, m) ==
    IF m = NoMatch \/ SumLens(m) = 0
    THEN <<text[pos]>> \o ReplaceFrom(text, pos + 1, pat, tpl, all)
    ELSE Expand(text, pos, m, tpl)
         \o (IF all THEN ReplaceFrom(text, pos + SumLens(m), pat, tpl, all)
             ELSE SubSeq(text, pos + SumLens(m), Len(text)))

ReplaceFrom(text, pos, pat, tpl, all) ==
    IF pos > Len(text) THEN <<>>
    ELSE ReplaceMatch(text, pos, pat, tpl, all, MatchAt(text, pos, pat))

\* String.replaceAll(regex, replacement)
ReplaceAll(text, pat, tpl) == ReplaceFrom(text, 1, pat, tpl, TRUE)

\* String.replaceFirst(regex, replacement)
ReplaceFirst(text, pat, tpl) == ReplaceFrom(text, 1, pat, tpl, FALSE)

\* the pattern of a literal target
Literal(seq) == Pat("any", {}, [k \in 1..Len(seq) |-> El({seq[k]}, "1")])

\* String.contains, for one token
Contains(text, token) == \E k \in 1..Len(text) : text[k] = token

\* String.replace(target, replacement); a text without the first token of
\* the target is returned as it is
Replace(text, target, replacement) ==
    IF ~Contains(text, target[1]) THEN text
    ELSE ReplaceAll(text, Literal(target), <<Lit(replacement)>>)

\* String.startsWith
StartsWith(text, prefix) ==
    Len(text) >= Len(prefix) /\ SubSeq(text, 1, Len(prefix)) = prefix

-----------------------------------------------------------------------------
(* FormatText *)

\* fatha, damma, kasra and sukun: [U+064E-U+0650 U+0652]
Vowels == {"U+064E", "U+064F", "U+0650", "U+0652"}
\* shadda, the gemination mark
Shadda == "U+0651"
\* fathatan, dammatan, kasratan: [U+064B-U+064D]
Tanween == {"U+064B", "U+064C", "U+064D"}

\* reorderDiacritics: vowel + shadda becomes shadda + vowel, then shadda +
\* tanween becomes tanween + shadda
ReorderDiacritics(text) ==
    ReplaceAll(ReplaceAll(text, Pat("any", {}, <<El(Vowels, "1"), El({Shadda}, "1")>>),
                          <<Grp(2), Grp(1)>>),
               Pat("any", {}, <<El({Shadda}, "1"), El(Tanween, "1")>>),
               <<Grp(2), Grp(1)>>)

\* the letters of the words the rule for U+FD47 looks for

\* the word Allah, letter by letter
AllahLetters == <<"U+0627", "U+0644", "U+0644", "U+0647">>

\* the phrase a ligature expands to; a phrase is one token (named by its
\* transliteration), except that a final word Allah is spelled out because
\* the rule for U+FD47 can match it
Phrase(c) ==
    CASE c = "U+FDFD" -> <<"bismillah ar-rahman ar-rahim">>
      [] c = "U+FDFA" -> <<"salla allahu alayhi wa-sallam">>
      [] c = "U+FD40" -> <<"rahimahu", " ">> \o AllahLetters
      [] c = "U+FD4F" -> <<"rahimahum", " ">> \o AllahLetters
      [] c = "U+FD41" -> <<"radiya allahu anhu">>
      [] c = "U+FD44" -> <<"radiya allahu anhuma">>
      [] c = "U+FD42" -> <<"radiya allahu anha">>
      [] c = "U+FD43" -> <<"radiya allahu anhum">>
      [] c = "U+FD49" -> <<"alayhi as-salam">>
      [] c = "U+FD4A" -> <<"alayhi as-salatu wa-s-salam">>
      [] c = "U+FD4D" -> <<"alayha as-salam">>
      [] c = "U+FD47" -> <<"alayhi as-salam">>
      [] c = "U+FD4E" -> <<"tabaraka wa-taala">>
      [] c = "U+FDFB" -> <<"jalla jalaluhu">>
      [] c = "U+FDFE" -> <<"subhanahu wa-taala">>
      [] c = "U+FDFF" -> <<"azza wa-jall">>

\* text.replace(c, phrase) for every ligature of cs, in that order
RECURSIVE ExpandAll(_, _)
ExpandAll(text, cs) ==
    IF Len(cs) = 0 \/ Len(text) = 0 THEN text
    ELSE ExpandAll(Replace(text, <<Head(cs)>>, Phrase(Head(cs))), Tail(cs))

\* \s
WhiteSpace == {" ", "U+0009", "U+000A", "U+000D"}

\* a word of allahWords: every letter followed by any number of diacritics
RECURSIVE WordElems(_)
WordElems(letters) ==
    IF Len(letters) = 0 THEN <<>>
    ELSE <<El({Head(letters)}, "1"), El(Tanween \cup Vowels \cup {Shadda}, "*")>> \o WordElems(Tail(letters))

\* replaceAll(allahWords + "\\s*\uFD47", "$1 azza wa-jall") for one
\* alternative of allahWords
HonorificAfter(text, letters) ==
    ReplaceAll(text,
               Pat("any", {}, WordElems(letters) \o <<El(WhiteSpace, "*"), El({"U+FD47"}, "1")>>),
               [k \in 1..2 * Len(letters) |-> Grp(k)] \o <<Lit(<<" ", "azza wa-jall">>)>>)

\* the expansion of the ligatures.  The three alternatives of allahWords
\* start with different letters or differ at the third letter, and none of
\* them can match inside the match of another before U+FD47, so the single
\* replaceAll of the source equals the three replacements in sequence.
ExpandLigatures(text) ==
    ExpandAll(
        HonorificAfter(
            HonorificAfter(
                HonorificAfter(
                    ExpandAll(text, <<"U+FDFD", "U+FDFA", "U+FD40", "U+FD4F", "U+FD41",
                                      "U+FD44", "U+FD42", "U+FD43", "U+FD49", "U+FD4A",
                                      "U+FD4D">>),
                    AllahLetters),
                <<"U+0627", "U+0644", "U+0631", "U+0628">>),
            <<"U+0631", "U+0628">>),
        <<"U+FD47", "U+FD4E", "U+FDFB", "U+FDFE", "U+FDFF">>)

\* the footnote-marker character
NotSign == "U+00AC"

\* text.replace(NotSign + " ", " ")
RemoveStrayMarker(text) == Replace(text, <<NotSign, " ">>, <<" ">>)

\* the ornate brackets become braces
ReplaceBrackets(text) == Replace(Replace(text, <<"U+FD3F">>, <<"{">>), <<"U+FD3E">>, <<"}">>)

\* the Arabic-Indic digit of the value d
ArabicDigit(d) == CASE d = 0 -> "U+0660" [] d = 1 -> "U+0661" [] d = 2 -> "U+0662"
                    [] d = 3 -> "U+0663" [] d = 4 -> "U+0664" [] d = 5 -> "U+0665"
                    [] d = 6 -> "U+0666" [] d = 7 -> "U+0667" [] d = 8 -> "U+0668"
                    [] d = 9 -> "U+0669"

ArabicDigits == {ArabicDigit(d) : d \in 0..9}

\* WesternDigits with the digits copied unchanged
WesternDigits_Kept(text) == text

\* the loop over text.toCharArray(): an Arabic-Indic digit becomes the
\* Western digit of the same value
WesternDigits(text) ==
    [k \in 1..Len(text) |->
        IF text[k] \in ArabicDigits
        THEN Digit(CHOOSE d \in 0..9 : ArabicDigit(d) = text[k])
        ELSE text[k]]

Break == "</p>"

\* CRLF, LF and CR become paragraph breaks
ParagraphBreaks(text) ==
    Replace(Replace(Replace(text, <<"U+000D", "U+000A">>, <<Break>>),
                    <<"U+000A">>, <<Break>>),
            <<"U+000D">>, <<Break>>)

\* text.replace("</p></p>", "</p>&nbsp;</p>")
EmptyParagraphs(text) == Replace(text, <<Break, Break>>, <<Break, "&nbsp;", Break>>)

Zwnj == "&#8204;"
\* an opening title span with a data-type attribute, and one with a class

\* the two replacements that put &#8204; around the opening of a title span
TitleSpans(text) ==
    ReplaceAll(ReplaceAll(text, Pat("any", {}, <<El({"<span data-type='title'>"}, "1")>>),
                          <<Lit(<<Zwnj>>), Grp(1), Lit(<<Zwnj>>)>>),
               Pat("any", {Zwnj}, <<El({"<span class='title'>"}, "1")>>),
               <<Lit(<<Zwnj>>), Grp(1), Lit(<<Zwnj>>)>>)

\* a line of nine underscores
Underscores == "_________"
Rule == "<hr width='95' align='right'>"
FootnoteOpen == "<div class='footnote'>"

\* FirstSeparator converting every separator line
FirstSeparator_Every(text) ==
    ReplaceAll(text, Literal(<<Break, Underscores, Break>>), <<Lit(<<Rule, FootnoteOpen>>)>>)

\* text.replaceFirst("</p>_________</p>", rule + footnote container)
FirstSeparator(text) ==
    ReplaceFirst(text, Literal(<<Break, Underscores, Break>>), <<Lit(<<Rule, FootnoteOpen>>)>>)

FontOpen == "<font color=#be0000>"
FontClose == "</font>"
Digits == {"0", "1", "2", "3", "4", "5", "6", "7", "8", "9"}

\* the elements of \((NotSign)(\d+)\)
MarkerElems == <<El({"("}, "1"), El({NotSign}, "1"), El(Digits, "+"), El({")"}, "1")>>

\* <font color=#be0000>($k)</font>
Colored(k) == <<Lit(<<FontOpen, "(">>), Grp(k), Lit(<<")", FontClose>>)>>

\* BackReferences with the inline replacement alone
BackReferences_AllInline(text) ==
    ReplaceAll(text, Pat("any", {}, <<El({" "}, "?")>> \o MarkerElems),
               <<Lit(<<"<sup>">>)>> \o Colored(4) \o <<Lit(<<"</sup>">>)>>)

\* the four replacements of the (NotSign N) references: at the start of the
\* text, after a paragraph break, at the start of the footnote container,
\* and inline
BackReferences(text) ==
    ReplaceAll(
        ReplaceAll(
            ReplaceAll(
                ReplaceAll(text, Pat("start", {}, MarkerElems), Colored(3)),
                Pat("any", {}, <<El({Break}, "1"), El({" "}, "?")>> \o MarkerElems),
                <<Lit(<<Break>>)>> \o Colored(5)),
            Pat("any", {}, <<El({FootnoteOpen}, "1"), El({" "}, "?")>> \o MarkerElems),
            <<Grp(1)>> \o Colored(5)),
        Pat("any", {}, <<El({" "}, "?")>> \o MarkerElems),
        <<Lit(<<"<sup>">>)>> \o Colored(4) \o <<Lit(<<"</sup>">>)>>)

\* the two replacements of the plain markers (N): at the start of the
\* footnote container (\d+) and after a paragraph break (\d{1,2}, followed
\* by a space)
PlainMarkers(text) ==
    ReplaceAll(
        ReplaceAll(text,
                   Pat("any", {}, <<El({FootnoteOpen}, "1"), El({"("}, "1"), El(Digits, "+"),
                                    El({")"}, "1")>>),
                   <<Grp(1)>> \o Colored(3)),
        Pat("any", {}, <<El({Break}, "1"), El({"("}, "1"), El(Digits, "1-2"),
                         El({")"}, "1"), El({" "}, "1")>>),
        <<Lit(<<Break>>)>> \o Colored(3) \o <<Lit(<<" ">>)>>)

Ellipsis == "U+2026"

\* the Unicode ellipsis and " ... " are colored
StyleEllipsis(text) ==
    Replace(Replace(text, <<Ellipsis>>, <<FontOpen, Ellipsis, FontClose>>),
            <<" ", ".", ".", ".", " ">>, <<" ", FontOpen, Ellipsis, FontClose, " ">>)

\* text.replace(",", Arabic comma)
ArabicComma(text) == Replace(text, <<",">>, <<"U+060C">>)

\* replaceAll("(^|</p>)(\\d+) -(&#8204;|<sup>|\\s)", colored "$2 -")
NumberedEntries(text) ==
    ReplaceAll(text,
               Pat("startOr", {}, <<El({Break}, "?"), El(Digits, "+"), El({" "}, "1"),
                                    El({"-"}, "1"), El({Zwnj, "<sup>"} \cup WhiteSpace, "1")>>),
               <<Grp(1), Lit(<<FontOpen>>), Grp(2), Lit(<<" ", "-", FontClose>>), Grp(5)>>)

\* the steps of formatText after the null check, in order
FormatSteps ==
    <<"reorderDiacritics", "expandLigatures", "removeStrayMarker", "replaceBrackets",
      "westernDigits", "paragraphBreaks", "emptyParagraphs", "titleSpans",
      "firstSeparator", "backReferences", "plainMarkers", "styleEllipsis",
      "arabicComma", "numberedEntries">>

\* the text after step number k of formatText
ApplyStep(k, text) ==
    CASE FormatSteps[k] = "reorderDiacritics" -> ReorderDiacritics(text)
      [] FormatSteps[k] = "expandLigatures"   -> ExpandLigatures(text)
      [] FormatSteps[k] = "removeStrayMarker" -> RemoveStrayMarker(text)
      [] FormatSteps[k] = "replaceBrackets"   -> ReplaceBrackets(text)
      [] FormatSteps[k] = "westernDigits"     -> WesternDigits(text)
      [] FormatSteps[k] = "paragraphBreaks"   -> ParagraphBreaks(text)
      [] FormatSteps[k] = "emptyParagraphs"   -> EmptyParagraphs(text)
      [] FormatSteps[k] = "titleSpans"        -> TitleSpans(text)
      [] FormatSteps[k] = "firstSeparator"    -> FirstSeparator(text)
      [] FormatSteps[k] = "backReferences"    -> BackReferences(text)
      [] FormatSteps[k] = "plainMarkers"      -> PlainMarkers(text)
      [] FormatSteps[k] = "styleEllipsis"     -> StyleEllipsis(text)
      [] FormatSteps[k] = "arabicComma"       -> ArabicComma(text)
      [] FormatSteps[k] = "numberedEntries"   -> NumberedEntries(text)

\* the steps k, k+1, ... applied in order (no step adds to an empty text)
RECURSIVE RunSteps(_, _)
RunSteps(text, k) ==
    IF k > Len(FormatSteps) \/ Len(text) = 0 THEN text
    ELSE RunSteps(ApplyStep(k, text), k + 1)

\* formatText(text)
FormatText(text) ==
    IF text = Null \/ Len(text) = 0 THEN <<>>
    ELSE RunSteps(text, 1)

\* hasBody / hasFoot
HasText(t) == t # Null /\ Len(t) > 0

\* an absent printed page number (page.get("page") == null)
NoNumber == <<>>

\* toArabicNumerals(number): every decimal digit of String.valueOf(number)
\* becomes the Arabic-Indic digit of the same value, a minus sign is kept
ToArabicNumerals(number) ==
    LET str == IF number < 0 THEN <<"-">> \o IntToString(-number) ELSE IntToString(number)
    IN  [k \in 1..Len(str) |-> IF IsDigit(str[k]) THEN ArabicDigit(DigitValue(str[k]))
                               ELSE str[k]]

\* " - " followed by the abbreviation of "part" (jim, tatweel) and a space
PartInfix == <<" ", "-", " ", "U+062C", "U+0640", " ">>

\* exportPart: the document title
Title(bookName, partName) ==
    IF partName # Null /\ Len(partName) > 0
    THEN IF IsNumeric(partName)
         THEN bookName \o PartInfix \o ToArabicNumerals(DecimalValue(partName))
         ELSE bookName \o <<" ", "-", " ">> \o partName
    ELSE bookName

\* exportPart: the part name of the page headers
HeaderPartName(bookName, partName) ==
    IF partName = Null \/ Len(partName) = 0 THEN bookName
    ELSE IF IsNumeric(partName)
    THEN bookName \o PartInfix \o ToArabicNumerals(DecimalValue(partName))
    ELSE bookName \o <<" ", "-", " ">> \o partName

\* TitleToMemory without the part
TitleToMemory_NoPart(bookName, partName) == bookName

\* exportPartToMemory: the document title
TitleToMemory(bookName, partName) ==
    IF partName # Null /\ Len(partName) > 0
    THEN IF IsNumeric(partName)
         THEN bookName \o PartInfix \o ToArabicNumerals(DecimalValue(partName))
         ELSE bookName \o <<" ", "-", " ">> \o partName
    ELSE bookName

\* exportPartToMemory: the part name of the page headers
HeaderPartNameToMemory(bookName, partName) ==
    IF partName = Null \/ Len(partName) = 0 THEN bookName
    ELSE IF IsNumeric(partName)
    THEN bookName \o PartInfix \o ToArabicNumerals(DecimalValue(partName))
    ELSE bookName \o <<" ", "-", " ">> \o partName

\* the page header: the part name and, if the page has a printed number,
\* the number in Arabic-Indic digits
PageHead(headerPartName, pg) ==
    <<"<div class='PageHead'>", "<span class='PartName'>">> \o headerPartName \o <<"</span>">>
    \o (IF pg.page # NoNumber
        THEN <<"<span class='PageNumber'>", "(", "U+0635", ":", " ">>
             \o ToArabicNumerals(pg.page[1]) \o <<")", "</span>">>
        ELSE <<>>)
    \o <<"<hr/>", "</div>">>

\* replaceFirst("^<sup>(<font color=#be0000>\\(\\d+\\)</font>)</sup>", "$1") on
\* a formatted footnote that starts with "<sup><font color=#be0000>("
UnwrapSup(formattedFoot) ==
    IF StartsWith(formattedFoot, <<"<sup>", FontOpen, "(">>)
    THEN ReplaceFirst(formattedFoot,
                      Pat("start", {}, <<El({"<sup>"}, "1"), El({FontOpen}, "1"), El({"("}, "1"),
                                         El(Digits, "+"), El({")"}, "1"), El({FontClose}, "1"),
                                         El({"</sup>"}, "1")>>),
                      <<Grp(2), Grp(3), Grp(4), Grp(5), Grp(6)>>)
    ELSE formattedFoot

Placeholder == "[No content available]"
CloseInline == <<"<p>", "</div>">>

\* PageHtml rendering the footnote of a page without a body in a footnote
\* container
PageHtml_FootInContainer(hasBody, hasFoot, formattedBody, formattedFoot) ==
    IF hasBody
    THEN IF hasFoot
         THEN formattedBody \o <<Rule, FootnoteOpen>> \o UnwrapSup(formattedFoot)
              \o <<"</div>">>
         ELSE IF Contains(formattedBody, FootnoteOpen)
              THEN formattedBody \o CloseInline
              ELSE formattedBody
    ELSE IF hasFoot
    THEN <<Rule, FootnoteOpen>> \o UnwrapSup(formattedFoot) \o <<"</div>">>
    ELSE <<Placeholder>>

\* exportPart: the branches on hasBody and hasFoot, on the formatted texts
PageHtml(hasBody, hasFoot, formattedBody, formattedFoot) ==
    IF hasBody
    THEN IF hasFoot
         THEN formattedBody \o <<Rule, FootnoteOpen>> \o UnwrapSup(formattedFoot)
              \o <<"</div>">>
         ELSE IF Contains(formattedBody, FootnoteOpen)
              THEN formattedBody \o CloseInline
              ELSE formattedBody
    ELSE IF hasFoot
    THEN IF Contains(formattedFoot, FootnoteOpen)
         THEN formattedFoot \o CloseInline
         ELSE formattedFoot
    ELSE <<Placeholder>>

\* exportPart: what is appended between the page header and the closing of
\* the page block; formatText is applied to the texts that are present
PageContent(body, foot) ==
    PageHtml(HasText(body), HasText(foot), FormatText(body), FormatText(foot))

\* exportPartToMemory: the branches on hasBody and hasFoot, on the formatted
\* texts
PageHtmlToMemory(hasBody, hasFoot, formattedBody, formattedFoot) ==
    IF hasBody
    THEN IF hasFoot
         THEN formattedBody \o <<Rule, FootnoteOpen>> \o UnwrapSup(formattedFoot)
              \o <<"</div>">>
         ELSE IF Contains(formattedBody, FootnoteOpen)
              THEN formattedBody \o CloseInline
              ELSE formattedBody
    ELSE IF hasFoot
    THEN IF Contains(formattedFoot, FootnoteOpen)
         THEN formattedFoot \o CloseInline
         ELSE formattedFoot
    ELSE <<Placeholder>>

\* exportPartToMemory: what is appended between the page header and the
\* closing of the page block
PageContentToMemory(body, foot) ==
    PageHtmlToMemory(HasText(body), HasText(foot), FormatText(body), FormatText(foot))

\* String[] texts = pageTexts.get(pageId), body and foot null if absent
TextsOf(pg, pageTexts) ==
    IF pg.id \in DOMAIN pageTexts THEN pageTexts[pg.id] ELSE [body |-> Null, foot |-> Null]

\* html.toString().replace("\n", "\r\n")
CrLf(html) == Replace(html, <<"U+000A">>, <<"U+000D", "U+000A">>)

\* the page block of one page: <div class='PageText'>, the header, the
\* content and </div>\n
PageBlock(pg, pageTexts, headerPartName) ==
    [kind |-> "page", id |-> pg.id,
     head |-> CrLf(PageHead(headerPartName, pg)),
     content |-> CrLf(PageContent(TextsOf(pg, pageTexts).body, TextsOf(pg, pageTexts).foot))]

PageBlockToMemory(pg, pageTexts, headerPartName) ==
    [kind |-> "page", id |-> pg.id,
     head |-> CrLf(PageHead(headerPartName, pg)),
     content |-> CrLf(PageContentToMemory(TextsOf(pg, pageTexts).body,
                                          TextsOf(pg, pageTexts).foot))]

\* HTML_HEADER, the title and HTML_TITLE_END
HeaderBlock(title) == [kind |-> "header", title |-> title]

\* buildBetakaPage(bookInfo, betaka): the metadata page, a function of the
\* catalog row of the book and of its betaka text
BetakaPage(b, betaka) == [kind |-> "betaka", book |-> b, betaka |-> betaka]

\* HTML_FOOTER
FooterBlock == [kind |-> "footer"]

\* exportPart: the document written for one part, block by block in the
\* order of the appends (betaka is Null if the book index has no document)
ExportPart(b, partName, partPages, pageTexts, betaka) ==
    LET bookName == catalog[b].name
        headerPartName == HeaderPartName(bookName, partName)
    IN  [book |-> b, part |-> partName,
         html |-> <<HeaderBlock(Title(bookName, partName))>>
                  \o (IF betaka # Null THEN <<BetakaPage(b, betaka)>> ELSE <<>>)
                  \o [k \in 1..Len(partPages) |->
                         PageBlock(partPages[k], pageTexts, headerPartName)]
                  \o <<FooterBlock>>]

\* exportPartToMemory: the document returned for one part
ExportPartToMemory(b, partName, partPages, pageTexts, betaka) ==
    LET bookName == catalog[b].name
        headerPartName == HeaderPartNameToMemory(bookName, partName)
    IN  [book |-> b, part |-> partName,
         html |-> <<HeaderBlock(TitleToMemory(bookName, partName))>>
                  \o (IF betaka # Null THEN <<BetakaPage(b, betaka)>> ELSE <<>>)
                  \o [k \in 1..Len(partPages) |->
                         PageBlockToMemory(partPages[k], pageTexts, headerPartName)]
                  \o <<FooterBlock>>]

\* safeName: drop the characters <>:"/\|?*, collapse white space, trim
\* (names of the model stay far below the cap of 200 characters)
RECURSIVE StripIllegal(_)
StripIllegal(name) ==
    IF Len(name) = 0 THEN <<>>
    ELSE IF Head(name) \in {"<", ">", ":", "\"", "/", "\\", "|", "?", "*"}
         THEN StripIllegal(Tail(name))
         ELSE <<Head(name)>> \o StripIllegal(Tail(name))

RECURSIVE CollapseSpaces(_)
CollapseSpaces(name) ==
    IF Len(name) < 2 THEN name
    ELSE IF name[1] = " " /\ name[2] = " " THEN CollapseSpaces(Tail(name))
         ELSE <<Head(name)>> \o CollapseSpaces(Tail(name))

Trim(name) ==
    LET a == IF Len(name) > 0 /\ name[1] = " " THEN Tail(name) ELSE name
    IN  IF Len(a) > 0 /\ a[Len(a)] = " " THEN SubSeq(a, 1, Len(a) - 1) ELSE a

SafeName(name) == IF name = Null THEN <<>> ELSE Trim(CollapseSpaces(StripIllegal(name)))

-----------------------------------------------------------------------------
(* ExportOrchestrator: one book *)

\* MissingPages with the check of the texts left out: only a page without a
\* document counts
MissingPages_OnlyAbsent(pgs, pageTexts) ==
    LET bad == SelectSeq(pgs, LAMBDA pg : pg.id \notin DOMAIN pageTexts)
    IN  [k \in 1..Len(bad) |-> bad[k].id]

\* the page ids without a non-empty body or footnote, in page-list order
MissingPages(pgs, pageTexts) ==
    LET lacks(pg) == \/ pg.id \notin DOMAIN pageTexts
                     \/ /\ ~HasText(pageTexts[pg.id].body)
                        /\ ~HasText(pageTexts[pg.id].foot)
        bad == SelectSeq(pgs, lacks)
    IN  [k \in 1..Len(bad) |-> bad[k].id]

\* CompletenessMessage listing every violating page
CompletenessMessage_Uncapped(b, missing) ==
    <<"pages with no content available", b, Len(missing), missing>>

\* the completeness error: book, violation count, at most 10 example ids
CompletenessMessage(b, missing) ==
    <<"pages with no content available", b, Len(missing),
      SubSeq(missing, 1, IF Len(missing) <= 10 THEN Len(missing) ELSE 10)>>

\* getBetaka(b): the body_store of the book's document, Null without one
GetBetaka(b) == IF b \in DOMAIN betakas THEN betakas[b] ELSE Null

\* PartBetaka passing the betaka to the first part only
PartBetaka_FirstOnly(betaka, fileCounter) == IF fileCounter = 1 THEN betaka ELSE Null

\* the betaka argument of the exportPart call for the part numbered
\* fileCounter: the same betaka for every part
PartBetaka(betaka, fileCounter) == betaka

\* the key of a page in the LinkedHashMap parts
PartKey(pg) == IF pg.part = Null THEN <<>> ELSE pg.part

\* parts.keySet() in insertion order: the labels in first-seen order
RECURSIVE PartOrder(_)
PartOrder(pgs) ==
    IF Len(pgs) = 0 THEN <<>>
    ELSE LET before == PartOrder(SubSeq(pgs, 1, Len(pgs) - 1))
             key == PartKey(pgs[Len(pgs)])
         IN  IF key \in SeqToSet(before) THEN before ELSE Append(before, key)

\* parts.get(key): the pages with that label, in page-list order
PartPages(pgs, key) == SelectSeq(pgs, LAMBDA pg : PartKey(pg) = key)

\* Files.write(partFile, content): the file is created or replaced
WriteFile(fs, path, doc) == [q \in DOMAIN fs \cup {path} |-> IF q = path THEN doc ELSE fs[q]]

\* the loop over parts.entrySet() of exportBook from part number k on: every
\* part is written to <bookDir>/<FileName(k)>; an exception ends the loop
RECURSIVE WriteParts(_, _, _, _, _, _, _)
WriteParts(b, pgs, pageTexts, bookDir, k, fault, fs) ==
    LET order == PartOrder(pgs) IN
    IF k > Len(order) THEN [files |-> fs, written |-> <<>>, threw |-> FALSE, msg |-> <<>>]
    ELSE IF ParseIntThrows(order[k])
    THEN [files |-> fs, written |-> <<>>, threw |-> TRUE,
          msg |-> <<"NumberFormatException", order[k]>>]
    ELSE IF fault.kind = "writeIO" /\ fault.at = k
    THEN [files |-> fs, written |-> <<>>, threw |-> TRUE,
          msg |-> <<"IOException", bookDir, FileName(k)>>]
    ELSE [WriteParts(b, pgs, pageTexts, bookDir, k + 1, fault,
                     WriteFile(fs, <<bookDir, FileName(k)>>,
                               ExportPart(b, order[k], PartPages(pgs, order[k]), pageTexts,
                                          PartBetaka(GetBetaka(b), k))))
            EXCEPT !.written = <<<<bookDir, FileName(k)>>>> \o @]

\* exportBook(b) on the file system <<ds, fs>>: result "dir" (a directory
\* was returned), "null" or "threw"
ExportBook(b, fault, order, ds, fs) ==
    IF b \notin DOMAIN catalog
    THEN [result |-> "null", dirs |-> ds, files |-> fs, written |-> <<>>,
          out |-> <<>>, err |-> <<<<"not found in database", b>>>>, msg |-> <<>>,
          resolved |-> FALSE, texts |-> EmptyMap, lookups |-> <<>>]
    ELSE IF Len(pages[b]) = 0
    THEN [result |-> "null", dirs |-> ds, files |-> fs, written |-> <<>>,
          out |-> <<<<"Exporting", b>>>>, err |-> <<<<"No pages found in book database">>>>,
          msg |-> <<>>, resolved |-> FALSE, texts |-> EmptyMap, lookups |-> <<>>]
    ELSE
    LET r == GetPageTexts(b, fault, order)
        missing == MissingPages(pages[b], r.texts)
        bookDir == SafeName(catalog[b].name)
        head == <<<<"Exporting", b>>, <<"Loading pages from index", Len(pages[b])>>>>
    IN  IF r.threw
        THEN [result |-> "threw", dirs |-> ds, files |-> fs, written |-> <<>>,
              out |-> head \o r.out, err |-> r.err, msg |-> <<"IOException index">>,
              resolved |-> FALSE, texts |-> EmptyMap, lookups |-> r.lookups]
        ELSE IF Len(missing) > 0
        THEN [result |-> "threw", dirs |-> ds, files |-> fs, written |-> <<>>,
              out |-> head \o r.out \o <<<<"Found pages with content", Cardinality(DOMAIN r.texts)>>>>,
              err |-> r.err, msg |-> CompletenessMessage(b, missing),
              resolved |-> TRUE, texts |-> r.texts, lookups |-> r.lookups]
        ELSE CHOOSE done \in
                 {[result |-> IF w.threw THEN "threw" ELSE "dir",
                   dirs |-> ds \cup {bookDir}, files |-> w.files, written |-> w.written,
                   out |-> head \o r.out
                           \o <<<<"Found pages with content", Cardinality(DOMAIN r.texts)>>>>
                           \o (IF w.threw THEN <<>> ELSE <<<<"Exported to", bookDir>>>>),
                   err |-> r.err, msg |-> w.msg,
                   resolved |-> TRUE, texts |-> r.texts, lookups |-> r.lookups]
                  : w \in {WriteParts(b, pages[b], r.texts, bookDir, 1, fault, fs)}} : TRUE

\* the loop over parts.entrySet() of exportBookToMemory: file name -> document
RECURSIVE MemoryParts(_, _, _, _)
MemoryParts(b, pgs, pageTexts, k) ==
    LET order == PartOrder(pgs) IN
    IF k > Len(order) THEN [result |-> <<>>, threw |-> FALSE, msg |-> <<>>]
    ELSE IF ParseIntThrows(order[k])
    THEN [result |-> <<>>, threw |-> TRUE, msg |-> <<"NumberFormatException", order[k]>>]
    ELSE [MemoryParts(b, pgs, pageTexts, k + 1)
            EXCEPT !.result =
                <<<<FileName(k),
                    ExportPartToMemory(b, order[k], PartPages(pgs, order[k]), pageTexts,
                                       PartBetaka(GetBetaka(b), k))>>>> \o @]

\* BookFailure without the check of the page list
BookFailure_PagesUnchecked(b) ==
    IF b \notin DOMAIN catalog THEN <<"not found in database", b>> ELSE <<>>

\* the two fatal checks at the head of exportBookToMemory: the exception
\* message, <<>> if the book is in the catalog and has pages
BookFailure(b) ==
    IF b \notin DOMAIN catalog THEN <<"not found in database", b>>
    ELSE IF Len(pages[b]) = 0 THEN <<"No pages found in book database for book", b>>
    ELSE <<>>

\* exportBookToMemory(b): the documents in order, or an exception
ExportBookToMemory(b, fault, order) ==
    IF BookFailure(b) # <<>>
    THEN [threw |-> TRUE, result |-> <<>>, out |-> <<>>,
          err |-> IF b \in DOMAIN catalog THEN <<<<"Exporting", b>>>> ELSE <<>>,
          msg |-> BookFailure(b),
          resolved |-> FALSE, texts |-> EmptyMap, lookups |-> <<>>]
    ELSE
    LET r == GetPageTexts(b, fault, order)
        missing == MissingPages(pages[b], r.texts)
        head == <<<<"Exporting", b>>, <<"Loading pages from index", Len(pages[b])>>>>
        found == <<<<"Found pages with content", Cardinality(DOMAIN r.texts)>>>>
    IN  IF r.threw
        THEN [threw |-> TRUE, result |-> <<>>, out |-> r.out, err |-> head \o r.err,
              msg |-> <<"IOException index">>,
              resolved |-> FALSE, texts |-> EmptyMap, lookups |-> r.lookups]
        ELSE IF Len(missing) > 0
        THEN [threw |-> TRUE, result |-> <<>>, out |-> r.out,
              err |-> head \o r.err \o found, msg |-> CompletenessMessage(b, missing),
              resolved |-> TRUE, texts |-> r.texts, lookups |-> r.lookups]
        ELSE CHOOSE done \in
                 {[threw |-> m.threw, result |-> IF m.threw THEN <<>> ELSE m.result,
                   out |-> r.out,
                   err |-> head \o r.err \o found
                           \o (IF m.threw THEN <<>>
                               ELSE <<<<"Exported files to memory", Len(m.result)>>>>),
                   msg |-> m.msg,
                   resolved |-> TRUE, texts |-> r.texts, lookups |-> r.lookups]
                  : m \in {MemoryParts(b, pages[b], r.texts, 1)}} : TRUE

-----------------------------------------------------------------------------
(* The stores *)

\* every book id the stores or the command line can name
Books == {1, 2, 3, 4, 5, 6}

\* a row of the page table; the printed page number is the id unless said
\* otherwise
Page(id, part) == [id |-> id, part |-> part, page |-> <<id>>]

NoPages == [b \in Books |-> <<>>]
NoAliases == [b \in Books |-> EmptyMap]

\* A library with one book of every kind:
\*   1  four pages, labels null, "1", "", "x": three parts
\*   2  one page; its name sanitizes to the directory name of book 1
\*   3  two pages, the second aliased to page 2 of book 1
\*   4  in the catalog, without a page table
\*   5  three pages, the second with a blank document and the third with none
\*   6  not in the catalog
LibCatalog ==
    (1 :> [name |-> <<"a", "b">>]) @@ (2 :> [name |-> <<"a", ":", "b">>]) @@
    (3 :> [name |-> <<"c">>]) @@ (4 :> [name |-> <<"d">>]) @@ (5 :> [name |-> <<"e">>])

LibPages ==
    [NoPages EXCEPT
        ![1] = <<Page(1, Null), Page(2, <<"1">>), Page(3, <<>>), Page(4, <<"x">>)>>,
        ![2] = <<Page(1, <<"1">>)>>,
        ![3] = <<Page(1, <<"x">>), Page(2, <<"x">>)>>,
        ![5] = <<Page(1, <<"1">>), Page(2, <<"2">>), Page(3, <<"2">>)>>]

\* the book index holds a betaka for the books 1, 3 and 5
LibBetakas == [b \in {1, 3, 5} |-> <<"t">> \o IntToString(b)]

LibAliases == [NoAliases EXCEPT ![3] = (2 :> <<1, 2>>)]

LibIndex ==
    (<<1, 1>> :> Doc("both", 1, 1)) @@ (<<1, 2>> :> Doc("body", 1, 2)) @@
    (<<1, 3>> :> Doc("foot", 1, 3)) @@ (<<1, 4>> :> Doc("both", 1, 4)) @@
    (<<2, 1>> :> Doc("both", 2, 1)) @@ (<<3, 1>> :> Doc("both", 3, 1)) @@
    (<<5, 1>> :> Doc("both", 5, 1)) @@ (<<5, 2>> :> Doc("blank", 5, 2))

\* The stores of SpecStores: books 1..3 of two pages each
StoreBooks == {1, 2, 3}
StoreKeys == StoreBooks \X {1, 2}
\* the pages that may carry an alias row, and the donor pages a row may name
AliasSources == {<<1, 1>>, <<1, 2>>, <<2, 1>>}
AliasTargets == {<<1, 1>>, <<2, 1>>, <<2, 2>>, <<3, 1>>}
PartLabels == {Null, <<>>, <<"1">>, <<"x">>}

StoreBetakas == [b \in StoreBooks |-> <<"t">> \o IntToString(b)]

StoreCatalog == [b \in StoreBooks |-> [name |-> <<"n">> \o IntToString(b)]]

\* book 1 has the pages 1, 2, 3 with the labels of `labels`, the other books the
\* pages 1, 2 with the labels "1", "2"
StorePageLists(labels) ==
    [b \in Books |->
        IF b = 1 THEN [k \in 1..Len(labels) |-> Page(k, labels[k])]
        ELSE IF b \in StoreBooks THEN <<Page(1, <<"1">>), Page(2, <<"2">>)>>
        ELSE <<>>]

\* an index with a full document for every key but those of `odd`, which are
\* missing or hold a blank document
StoreIndex(odd, kind) ==
    LET present == {k \in StoreKeys : ~(k \in odd /\ kind[k] = "none")}
    IN  [k \in present \cup {<<1, 3>>} |->
            IF k \in odd THEN Doc(kind[k], k[1], k[2]) ELSE Doc("both", k[1], k[2])]

\* the alias tables with the rows `rows`, a function from AliasSources keys to donors
StoreAliases(rows) ==
    [b \in Books |->
        [p \in {k[2] : k \in {kk \in DOMAIN rows : kk[1] = b}} |-> rows[<<b, p>>]]]

-----------------------------------------------------------------------------
(* The command line *)

\* the arguments that name a book, and one that is no integer
Tokens == {IntToString(b) : b \in Books} \cup {<<"x">>}

RECURSIVE SeqsUpTo(_, _)
SeqsUpTo(S, n) ==
    IF n = 0 THEN {<<>>}
    ELSE LET shorter == SeqsUpTo(S, n - 1)
         IN  shorter \cup {Append(s, x) : s \in {t \in shorter : Len(t) = n - 1}, x \in S}

\* the valid ids among the arguments, in order (Integer.parseInt per argument)
RECURSIVE ParseIds(_)
ParseIds(tokens) ==
    IF Len(tokens) = 0 THEN <<>>
    ELSE IF IsNumeric(Head(tokens)) /\ ~ParseIntThrows(Head(tokens))
         THEN <<DecimalValue(Head(tokens))>> \o ParseIds(Tail(tokens))
         ELSE ParseIds(Tail(tokens))

InvalidIds(tokens) == SelectSeq(tokens, LAMBDA t : ~IsNumeric(t) \/ ParseIntThrows(t))

\* getAllBooks: the catalog's ids, ORDER BY book_id
RECURSIVE SortedIds(_)
SortedIds(S) ==
    IF S = {} THEN <<>>
    ELSE LET m == CHOOSE x \in S : \A y \in S : x <= y
         IN  <<m>> \o SortedIds(S \ {m})

-----------------------------------------------------------------------------
(* Initial states *)

Handles == {"reader", "bookReader"}

InitRun ==
    /\ pc = "start"
    /\ opens = [h \in Handles |-> 0]
    /\ closes = [h \in Handles |-> 0]
    /\ bookIds = <<>>
    /\ i = 0
    /\ success = 0
    /\ errors = <<>>
    /\ dirs = {}
    /\ files = EmptyMap
    /\ stdout = <<>>
    /\ stderr = <<>>
    /\ exitCode = -1
    /\ raised = <<>>
    /\ faults = 0
    /\ attempts = <<>>

\* no call of formatText under observation
FormatIdle ==
    /\ fmtIn = Null
    /\ fmt = <<>>
    /\ fmtStep = 0

\* the library, and any command line
Init ==
    /\ catalog = LibCatalog
    /\ pages = LibPages
    /\ aliases = LibAliases
    /\ index = LibIndex
    /\ betakas = LibBetakas
    /\ FormatIdle
    /\ args \in [mode : {"none"}, ids : {<<>>}]
           \cup [mode : {"list", "all"}, ids : {<<>>}]
           \cup [mode : {"stdout"}, ids : SeqsUpTo(Tokens, 1)]
           \cup [mode : {"ids"}, ids : SeqsUpTo(Tokens, MaxBatch) \ {<<>>}]
    /\ InitRun

\* any stores within the bounds, and a command line that names book 1
InitStores ==
    /\ catalog = StoreCatalog
    /\ betakas = StoreBetakas
    /\ FormatIdle
    /\ \E odd \in SUBSET StoreKeys :
          /\ Cardinality(odd) <= MaxMissing
          /\ \E kind \in [odd -> {"none", "blank"}] : index = StoreIndex(odd, kind)
    /\ \/ /\ \E labels \in [1..3 -> PartLabels] : pages = StorePageLists(labels)
          /\ aliases = NoAliases
       \/ /\ pages = StorePageLists(<<<<"1">>, <<"2">>>>)
          /\ \E src \in SUBSET AliasSources :
                /\ Cardinality(src) <= MaxAliases
                /\ \E rows \in [src -> AliasTargets] : aliases = StoreAliases(rows)
    /\ args = [mode |-> "ids", ids |-> <<IntToString(1)>>]
    /\ InitRun

-----------------------------------------------------------------------------
(* Actions *)

\* the storage faults that can strike one export of book b
FaultChoices(b) ==
    {NoFault} \cup
    IF faults < MaxFaults /\ b \in DOMAIN catalog /\ Len(pages[b]) > 0
    THEN {[kind |-> "aliasSql", at |-> 0]}
         \cup {[kind |-> "indexIO", at |-> k] :
                  k \in 1..(1 + Cardinality(DonorBooks(aliases[b])))}
         \cup {[kind |-> "writeIO", at |-> k] : k \in 1..Len(PartOrder(pages[b]))}
    ELSE {}

\* the outcomes of opening or closing the two handles: no failure, or the
\* failure of one of them
HandleFaults == {"none"} \cup IF faults < MaxFaults THEN Handles ELSE {}

\* the catch block of main
Caught(msg) == <<<<"Error", msg>>, <<"stack trace">>>>

\* main without arguments: usage, exit status 1
Main_Usage ==
    /\ pc = "start"
    /\ args.mode = "none"
    /\ stdout' = stdout \o <<<<"Usage">>>>
    /\ exitCode' = 1
    /\ pc' = "done"
    /\ UNCHANGED <<fmtVars, stores, args, opens, closes, bookIds, i, success, errors, dirs,
                   files, stderr, raised, faults, attempts>>

\* new ShamelaExporter(baseDir): the page index is opened, then the book index
Main_Construct ==
    /\ pc = "start"
    /\ args.mode # "none"
    /\ \E f \in HandleFaults :
          /\ opens' = [h \in Handles |->
                          CASE f = "none" -> 1
                            [] f = "reader" -> 0
                            [] f = "bookReader" -> IF h = "reader" THEN 1 ELSE 0]
          /\ faults' = IF f = "none" THEN faults ELSE faults + 1
          /\ IF f = "none"
             THEN /\ pc' = "run"
                  /\ UNCHANGED <<stderr, exitCode>>
             ELSE /\ pc' = "done"
                  /\ stderr' = stderr \o Caught(<<"IOException open", f>>)
                  /\ exitCode' = 1
    /\ UNCHANGED <<fmtVars, stores, args, closes, bookIds, i, success, errors, dirs, files,
                   stdout, raised, attempts>>

\* --list: listBooks prints the catalog
Main_List ==
    /\ pc = "run"
    /\ args.mode = "list"
    /\ stdout' = stdout \o <<<<"Available books", Cardinality(DOMAIN catalog)>>>>
                        \o [k \in 1..Cardinality(DOMAIN catalog) |->
                               <<"book", SortedIds(DOMAIN catalog)[k]>>]
    /\ pc' = "finally"
    /\ UNCHANGED <<fmtVars, stores, args, opens, closes, bookIds, i, success, errors, dirs,
                   files, stderr, exitCode, raised, faults, attempts>>

\* --stdout without a book id: System.exit(1) inside the try block
Main_StdoutNoId ==
    /\ pc = "run"
    /\ args.mode = "stdout"
    /\ Len(args.ids) = 0
    /\ stderr' = stderr \o <<<<"Error: --stdout requires a book ID">>>>
    /\ exitCode' = 1
    /\ pc' = "done"
    /\ UNCHANGED <<fmtVars, stores, args, opens, closes, bookIds, i, success, errors, dirs,
                   files, stdout, raised, faults, attempts>>

\* --stdout <arg> where arg is no integer: Integer.parseInt throws
Main_StdoutBadId ==
    /\ pc = "run"
    /\ args.mode = "stdout"
    /\ Len(args.ids) > 0
    /\ ParseIds(<<args.ids[1]>>) = <<>>
    /\ raised' = <<"NumberFormatException", args.ids[1]>>
    /\ pc' = "finally"
    /\ UNCHANGED <<fmtVars, stores, args, opens, closes, bookIds, i, success, errors, dirs,
                   files, stdout, stderr, exitCode, faults, attempts>>

\* --stdout <id>: exportBookToStdout(id)
ExportBookToStdout ==
    /\ pc = "run"
    /\ args.mode = "stdout"
    /\ Len(args.ids) > 0
    /\ ParseIds(<<args.ids[1]>>) # <<>>
    /\ LET b == ParseIds(<<args.ids[1]>>)[1] IN
       \E fault \in {f \in FaultChoices(b) : f.kind # "writeIO"},
          order \in Orders(DonorBooks(aliases[b])) :
          \E r \in {ExportBookToMemory(b, fault, order)} :
          /\ stdout' = stdout \o r.out
                       \o (IF r.threw THEN <<>>
                           ELSE <<<<"payload", [book_id |-> b, files |-> r.result]>>>>)
          /\ stderr' = stderr \o r.err
          /\ raised' = IF r.threw THEN r.msg ELSE <<>>
          /\ faults' = IF fault.kind = "none" THEN faults ELSE faults + 1
          /\ attempts' = Append(attempts,
                [book |-> b, mode |-> "memory",
                 result |-> IF r.threw THEN "threw" ELSE "ok",
                 written |-> <<>>, docs |-> r.result, fault |-> fault,
                 resolved |-> r.resolved, texts |-> r.texts, lookups |-> r.lookups])
    /\ pc' = "finally"
    /\ UNCHANGED <<fmtVars, stores, args, opens, closes, bookIds, i, success, errors, dirs,
                   files, exitCode>>

\* --all: every id of the catalog, then exportBooks
Main_All ==
    /\ pc = "run"
    /\ args.mode = "all"
    /\ bookIds' = SortedIds(DOMAIN catalog)
    /\ stdout' = stdout \o <<<<"Exporting books", Cardinality(DOMAIN catalog)>>>>
    /\ pc' = "batch"
    /\ UNCHANGED <<fmtVars, stores, args, opens, closes, i, success, errors, dirs, files,
                   stderr, exitCode, raised, faults, attempts>>

\* <id> [id...]: the arguments that parse, then exportBooks if there is one
Main_Ids ==
    /\ pc = "run"
    /\ args.mode = "ids"
    /\ bookIds' = ParseIds(args.ids)
    /\ stderr' = stderr \o [k \in 1..Len(InvalidIds(args.ids)) |->
                               <<"Invalid book ID", InvalidIds(args.ids)[k]>>]
    /\ IF ParseIds(args.ids) # <<>>
       THEN /\ stdout' = stdout \o <<<<"Exporting books", Len(ParseIds(args.ids))>>>>
            /\ pc' = "batch"
       ELSE /\ stdout' = stdout
            /\ pc' = "finally"
    /\ UNCHANGED <<fmtVars, stores, args, opens, closes, i, success, errors, dirs, files,
                   exitCode, raised, faults, attempts>>

\* AfterBook with the exception of a book's export leaving the loop
AfterBook_Rethrow(result) == IF result = "threw" THEN "finally" ELSE "batch"

\* exportBooks: where control goes after the export of one book: the catch
\* block swallows the exception and the loop goes on, whatever the result
AfterBook(result) == "batch"

\* ErrorsAfter recording thrown exceptions only
ErrorsAfter_ThrownOnly(errs, b, result, msg) ==
    IF result = "threw" THEN Append(errs, <<b, msg>>) ELSE errs

\* exportBooks: the failure list after the export of b ended with result
\* "dir", "null" or "threw" (with message msg)
ErrorsAfter(errs, b, result, msg) ==
    CASE result = "dir" -> errs
      [] result = "null" -> Append(errs, <<b, <<"Export returned null">>>>)
      [] result = "threw" -> Append(errs, <<b, msg>>)

\* BatchException without the final throw
BatchException_Never(errs) == <<>>

\* exportBooks: the exception thrown after the loop, <<>> if no book failed
BatchException(errs) ==
    IF Len(errs) > 0 THEN <<"Export failed", Len(errs), errs>> ELSE <<>>

\* exportBooks: one iteration of the loop, the export of bookIds[i + 1]
ExportBooks_Iter ==
    /\ pc = "batch"
    /\ i < Len(bookIds)
    /\ LET b == bookIds[i + 1] IN
       \E fault \in FaultChoices(b), order \in Orders(DonorBooks(aliases[b])) :
          \E r \in {ExportBook(b, fault, order, dirs, files)} :
          /\ success' = IF r.result = "dir" THEN success + 1 ELSE success
          /\ errors' = ErrorsAfter(errors, b, r.result, r.msg)
          /\ stdout' = stdout \o <<<<"progress", i + 1, Len(bookIds)>>>> \o r.out
          /\ stderr' = stderr \o r.err
                       \o (IF r.result = "threw" THEN <<<<"Error", r.msg>>>> ELSE <<>>)
          /\ dirs' = r.dirs
          /\ files' = r.files
          /\ faults' = IF fault.kind = "none" THEN faults ELSE faults + 1
          /\ attempts' = Append(attempts,
                [book |-> b, mode |-> "files",
                 result |-> IF r.result = "dir" THEN "ok" ELSE r.result,
                 written |-> r.written, docs |-> <<>>, fault |-> fault,
                 resolved |-> r.resolved, texts |-> r.texts, lookups |-> r.lookups])
          /\ pc' = AfterBook(r.result)
    /\ i' = i + 1
    /\ UNCHANGED <<fmtVars, stores, args, opens, closes, bookIds, exitCode, raised>>

\* exportBooks after the loop: the summary, and an exception if a book failed
ExportBooks_End ==
    /\ pc = "batch"
    /\ i = Len(bookIds)
    /\ stdout' = stdout \o <<<<"Export complete", success, Len(bookIds)>>>>
    /\ raised' = BatchException(errors)
    /\ pc' = "finally"
    /\ UNCHANGED <<fmtVars, stores, args, opens, closes, bookIds, i, success, errors, dirs,
                   files, stderr, exitCode, faults, attempts>>

\* the finally block of main, exporter.close(), and the end of main: the
\* page index is closed, then the book index
Main_Close ==
    /\ pc = "finally"
    /\ \E f \in HandleFaults :
          /\ closes' = [h \in Handles |->
                           CASE f = "none" -> closes[h] + 1
                             [] f = "reader" -> closes[h]
                             [] f = "bookReader" ->
                                  IF h = "reader" THEN closes[h] + 1 ELSE closes[h]]
          /\ faults' = IF f = "none" THEN faults ELSE faults + 1
          /\ IF f = "none" /\ raised = <<>>
             THEN /\ exitCode' = 0
                  /\ UNCHANGED stderr
             ELSE /\ exitCode' = 1
                  /\ stderr' = stderr \o Caught(IF f = "none" THEN raised
                                                ELSE <<"IOException close", f>>)
    /\ pc' = "done"
    /\ UNCHANGED <<fmtVars, stores, args, opens, bookIds, i, success, errors, dirs, files,
                   stdout, raised, attempts>>

Next ==
    \/ Main_Usage
    \/ Main_Construct
    \/ Main_List
    \/ Main_StdoutNoId
    \/ Main_StdoutBadId
    \/ ExportBookToStdout
    \/ Main_All
    \/ Main_Ids
    \/ ExportBooks_Iter
    \/ ExportBooks_End
    \/ Main_Close

Spec == Init /\ [][Next]_vars

\* the file-based export of the books named on the command line
NextStores ==
    \/ Main_Construct
    \/ Main_Ids
    \/ ExportBooks_Iter
    \/ ExportBooks_End
    \/ Main_Close

SpecStores == InitStores /\ [][NextStores]_vars

-----------------------------------------------------------------------------
(* One book of one page, with any body and footnote, exported to files or to *)
(* standard output                                                          *)

\* texts with every feature the assembler looks at: a separator line, a
\* marker at the start, a marker after a space, Arabic-Indic digits
FieldTexts ==
    {Null, <<>>, <<"a">>,
     <<"a", "U+000A", Underscores, "U+000A", "b">>,
     <<"(", NotSign, "1", ")", "a">>,
     <<" ", "(", NotSign, "2", ")", "a">>,
     <<"U+0661", "a", "U+0669", "0">>,
     <<"a", "U+000A", Underscores, "U+000A", "b", "U+000A", Underscores, "U+000A", "c">>}

BodyTexts == FieldTexts \cup SeqsUpTo({"a", "U+000A", Underscores, "U+0662"}, MaxPageText)

PageNumbers == {NoNumber, <<0>>, <<7>>, <<12>>, <<105>>}

\* a numeric part label above Integer.MAX_VALUE
LongLabel == <<"9", "9", "9", "9", "9", "9", "9", "9", "9", "9">>

\* book 1 has one page; either its texts or its label and number vary, or
\* the page has no document
InitPage ==
    /\ catalog = StoreCatalog
    /\ betakas = StoreBetakas
    /\ aliases = NoAliases
    /\ \/ /\ pages = [NoPages EXCEPT ![1] = <<Page(1, <<"1">>)>>]
          /\ \E body \in BodyTexts, foot \in FieldTexts :
                index = (<<1, 1>> :> [body |-> body, foot |-> foot])
       \/ /\ pages = [NoPages EXCEPT ![1] = <<Page(1, <<"1">>)>>]
          /\ index = EmptyMap
       \/ /\ \E part \in PartLabels \cup {<<"0", "0", "7">>, LongLabel}, number \in PageNumbers :
                pages = [NoPages EXCEPT ![1] = <<[id |-> 1, part |-> part, page |-> number]>>]
          /\ index = (<<1, 1>> :> [body |-> <<"U+0663", "a">>, foot |-> <<"b", "U+0669">>])
    /\ args \in [mode : {"ids", "stdout"}, ids : {<<IntToString(1)>>}]
    /\ InitRun
    /\ FormatIdle

NextPage ==
    \/ Main_Construct
    \/ Main_Ids
    \/ ExportBooks_Iter
    \/ ExportBooks_End
    \/ ExportBookToStdout
    \/ Main_Close

SpecPage == InitPage /\ [][NextPage]_vars

-----------------------------------------------------------------------------
(* One book of MaxPages pages in one part, any of them without content *)

\* the document of page p if it has content: body and footnote, body only
\* or footnote only
GateDoc(p) ==
    CASE p % 3 = 0 -> Doc("both", 1, p)
      [] p % 3 = 1 -> Doc("body", 1, p)
      [] p % 3 = 2 -> Doc("foot", 1, p)

\* the document of page p if it has none: both fields null, both empty, or
\* an empty body and a null footnote (the pages 4, 8, .. have no document)
GateBlank(p) ==
    CASE p % 4 = 1 -> [body |-> Null, foot |-> Null]
      [] p % 4 = 2 -> [body |-> <<>>, foot |-> <<>>]
      [] OTHER     -> Doc("blank", 1, p)

\* the page index in which the pages of `odd` have no content
GateIndex(odd) ==
    [k \in {<<1, p>> : p \in {q \in 1..MaxPages : ~(q \in odd /\ q % 4 = 0)}} |->
        IF k[2] \in odd THEN GateBlank(k[2]) ELSE GateDoc(k[2])]

InitGate ==
    /\ catalog = StoreCatalog
    /\ betakas = StoreBetakas
    /\ aliases = NoAliases
    /\ pages = [NoPages EXCEPT ![1] = [k \in 1..MaxPages |-> Page(k, <<"1">>)]]
    /\ \E odd \in SUBSET (1..MaxPages) : index = GateIndex(odd)
    /\ args \in [mode : {"ids", "stdout"}, ids : {<<IntToString(1)>>}]
    /\ InitRun
    /\ FormatIdle

SpecGate == InitGate /\ [][NextPage]_vars

-----------------------------------------------------------------------------
(* formatText on its own: one call, step by step *)

\* texts of letters and combining marks
DiacriticTexts == SeqsUpTo({"a", "U+064E", Shadda, "U+064B"}, MaxText)

\* texts of letters, spaces, line breaks, markers and digits
FreeTexts == SeqsUpTo({"a", " ", "U+000A", "U+000D", NotSign, "U+0663"}, MaxText)

\* a parenthesized number of up to MaxDigits digits, with or without the
\* marker character, after the start of the text, a line break or a
\* separator line, followed by a space or not
MarkerTexts ==
    {prefix \o <<"(">> \o mark \o digits \o <<")">> \o suffix :
        prefix \in {<<>>, <<"a">>, <<"U+000A">>, <<"a", " ">>,
                    <<"a", "U+000A", Underscores, "U+000A">>},
        mark \in {<<>>, <<NotSign>>},
        digits \in SeqsUpTo({"1", "U+0669"}, MaxDigits) \ {<<>>},
        suffix \in {<<>>, <<" ", "a">>}}

\* one text for every other rule of formatText
SampleTexts ==
    {Null,
     <<"U+FDFD", " ", "U+FD40", "U+FD47", " ", "U+0631", "U+064E", "U+0628", " ", "U+FD47", "U+FD47">>,
     <<"U+0627", "U+0644", "U+0631", "U+0628", "U+FD47", "U+FD4E", "U+FDFB", "U+FDFE", "U+FDFF">>,
     <<"U+FD3F", "a", "U+FD3E", ",", " ", ".", ".", ".", " ", "U+2026">>,
     <<"<span data-type='title'>", "a", "</span>", "U+000A", "<span class='title'>", "a",
       "</span>">>,
     <<"1", " ", "-", " ", "a", "U+000A", "2", " ", "-", Zwnj, "a">>,
     <<"a", "U+000A", Underscores, "U+000A", "b", "U+000A", Underscores, "U+000A", "c">>}

\* texts of letters, line feeds and lines of nine underscores
SeparatorTexts == SeqsUpTo({"a", "U+000A", Underscores}, MaxLines)

\* the concatenation of a sequence of texts
RECURSIVE Flatten(_)
Flatten(units) == IF Len(units) = 0 THEN <<>> ELSE Head(units) \o Flatten(Tail(units))

\* texts made of letters, spaces, line feeds, separator lines, references
\* with the marker character and a plain parenthesized number
ReferenceTexts ==
    {Flatten(units) :
        units \in SeqsUpTo({<<"a">>, <<" ">>, <<"U+000A">>, <<Underscores>>,
                            <<"(", NotSign, "1", ")">>,
                            <<"(", NotSign, "U+0662", "3", ")">>,
                            <<"(", "4", ")">>}, MaxUnits)}

Texts ==
    DiacriticTexts \cup FreeTexts \cup MarkerTexts \cup SampleTexts \cup SeparatorTexts
    \cup ReferenceTexts

\* a call formatText(fmtIn) for any text; the exporter itself is not run
InitText ==
    /\ catalog = LibCatalog
    /\ pages = LibPages
    /\ aliases = LibAliases
    /\ index = LibIndex
    /\ betakas = LibBetakas
    /\ args = [mode |-> "none", ids |-> <<>>]
    /\ InitRun
    /\ fmtIn \in Texts
    /\ fmt = fmtIn
    /\ fmtStep = 0

\* formatText: if (text == null || text.isEmpty()) return ""
FormatText_Empty ==
    /\ fmtStep = 0
    /\ fmtIn = Null \/ Len(fmtIn) = 0
    /\ fmt' = <<>>
    /\ fmtStep' = Len(FormatSteps)
    /\ UNCHANGED <<stores, args, pc, opens, closes, bookIds, i, success, errors, dirs,
                   files, stdout, stderr, exitCode, raised, faults, attempts, fmtIn>>

\* formatText: the next step
FormatText_Step ==
    /\ fmtStep < Len(FormatSteps)
    /\ fmtIn # Null /\ Len(fmtIn) > 0
    /\ fmt' = ApplyStep(fmtStep + 1, fmt)
    /\ fmtStep' = fmtStep + 1
    /\ UNCHANGED <<stores, args, pc, opens, closes, bookIds, i, success, errors, dirs,
                   files, stdout, stderr, exitCode, raised, faults, attempts, fmtIn>>

NextText ==
    \/ FormatText_Empty
    \/ FormatText_Step

SpecText == InitText /\ [][NextText]_vars

-----------------------------------------------------------------------------
(* Properties *)

Last(s) == s[Len(s)]

\* page id has no document in texts, or one whose body and footnote are both
\* null or empty
Lacks(texts, id) ==
    \/ id \notin DOMAIN texts
    \/ /\ texts[id].body \in {Null, <<>>}
       /\ texts[id].foot \in {Null, <<>>}

\* some page of book b lacks content in texts
Incomplete(b, texts) == \E k \in 1..Len(pages[b]) : Lacks(texts, pages[b][k].id)

\* the distinct part labels of book b, null counted as the empty label
Labels(b) == {IF pages[b][k].part = Null THEN <<>> ELSE pages[b][k].part :
                 k \in 1..Len(pages[b])}

\* the position of the first page of book b that carries the label
FirstPage(b, label) ==
    CHOOSE k \in 1..Len(pages[b]) :
        /\ (IF pages[b][k].part = Null THEN <<>> ELSE pages[b][k].part) = label
        /\ \A j \in 1..(k - 1) :
              (IF pages[b][j].part = Null THEN <<>> ELSE pages[b][j].part) # label

\* C1: whenever an export of a book resolved its content and a page of the
\* book has neither a non-empty body nor a non-empty footnote in the resolved
\* mapping, that export fails and leaves the output files and directories as
\* they were.
C1_CompletenessGate ==
    [][(/\ Len(attempts') = Len(attempts) + 1
        /\ Last(attempts').mode = "files"
        /\ Last(attempts').resolved
        /\ Incomplete(Last(attempts').book, Last(attempts').texts))
       => (/\ files' = files
           /\ dirs' = dirs
           /\ Last(attempts').written = <<>>
           /\ Last(attempts').result = "threw")]_vars

\* a book whose first page has content and whose second page has a blank
\* document was rejected, and nothing was written
C1_Witness ==
    /\ pc = "done"
    /\ Len(attempts) = 1
    /\ attempts[1].resolved
    /\ attempts[1].fault = NoFault
    /\ ~Lacks(attempts[1].texts, 1)
    /\ 2 \in DOMAIN attempts[1].texts
    /\ Lacks(attempts[1].texts, 2)
    /\ attempts[1].result = "threw"
    /\ files = EmptyMap

\* the file name the k-th document of a book must carry, k < 1000
SequentialName(k) ==
    <<Digit(k \div 100), Digit((k \div 10) % 10), Digit(k % 10), ".", "h", "t", "m">>

Resolved == {a \in 1..Len(attempts) :
                /\ attempts[a].resolved
                /\ attempts[a].fault.kind \notin {"aliasSql", "indexIO"}}

\* the number of times book d was looked up
LookupsOf(lookups, d) == Cardinality({k \in 1..Len(lookups) : lookups[k] = d})

\* C4: a getPageTexts call that completes without a storage fault looks up
\* the book's own prefix first and then every donor book of the alias table
\* exactly once: K donor lookups for K distinct donors, whatever the number of
\* alias rows.
C4_AliasBatching ==
    \A a \in Resolved :
        LET b == attempts[a].book
            donors == {aliases[b][p][1] : p \in DOMAIN aliases[b]}
            lookups == attempts[a].lookups
        IN  /\ Len(lookups) = 1 + Cardinality(donors)
            /\ lookups[1] = b
            /\ \A d \in donors : LookupsOf(Tail(lookups), d) = 1

\* two alias rows that name the same donor book were resolved with one donor
\* lookup
C4_Witness ==
    /\ Resolved # {}
    /\ Cardinality(DOMAIN aliases[1]) = 2
    /\ \A p \in DOMAIN aliases[1] : aliases[1][p][1] = 2
    /\ attempts[1].lookups = <<1, 2>>

\* the pages of an export's book that have a direct document and an alias
\* whose donor page has a document
DirectAndDonor(b) ==
    {p \in DOMAIN aliases[b] : <<b, p>> \in DOMAIN index /\ aliases[b][p] \in DOMAIN index}

\* C5 as stated: for a page with a direct document and an alias whose donor
\* page has a document, getPageTexts returns the direct (body, footnote) pair.
C5_DirectPrecedence ==
    \A a \in Resolved :
        \A p \in DirectAndDonor(attempts[a].book) :
            attempts[a].texts[p] = index[<<attempts[a].book, p>>]

\* C5 amended: for a page with a direct document and an alias whose donor
\* page has a document, getPageTexts returns the donor's (body, footnote)
\* pair: the remapped entry replaces the direct one.
C5_DonorPrecedence ==
    \A a \in Resolved :
        \A p \in DirectAndDonor(attempts[a].book) :
            attempts[a].texts[p] = index[aliases[attempts[a].book][p]]

\* page 1 of book 1 has its own document and is aliased to page 1 of book 2,
\* which has another one
C5_Witness ==
    /\ Resolved # {}
    /\ 1 \in DirectAndDonor(1)
    /\ aliases[1][1] = <<2, 1>>
    /\ index[<<1, 1>>] # index[<<2, 1>>]
    /\ attempts[1].texts[1] = index[<<2, 1>>]

\* the document a mapping holds for a page, NoDocument if it holds none
NoDocument == [body |-> Null, foot |-> Null, none |-> TRUE]
TextOf(texts, p) == IF p \in DOMAIN texts THEN texts[p] ELSE NoDocument

\* what a direct export of book b resolves: getPageTexts(b) without a fault
DirectExportTexts(b) ==
    GetPageTexts(b, NoFault, CHOOSE o \in Orders(DonorBooks(aliases[b])) : TRUE).texts

\* C10 as stated: the text an export resolves for a page aliased to (B, P)
\* is the text a direct export of B resolves for its page P.
C10_AliasTransparency ==
    \A a \in Resolved :
        LET A == attempts[a].book IN
        \A p \in DOMAIN aliases[A] :
            TextOf(attempts[a].texts, p)
                = TextOf(DirectExportTexts(aliases[A][p][1]), aliases[A][p][2])

\* page P of book B is aliased to a page that has a document
AliasedOn(B, P) == P \in DOMAIN aliases[B] /\ aliases[B][P] \in DOMAIN index

\* C10 amended: when the index holds a document for the donor page (B, P),
\* the text an export resolves for a page aliased to (B, P) is that document;
\* it is the text a direct export of B resolves for P unless B's page P is
\* itself aliased to a page with a document (alias chains are not followed).
C10_OneLevelTransparency ==
    \A a \in Resolved :
        LET A == attempts[a].book IN
        \A p \in DOMAIN aliases[A] :
            LET B == aliases[A][p][1]
                P == aliases[A][p][2]
            IN  <<B, P>> \in DOMAIN index =>
                /\ attempts[a].texts[p] = index[<<B, P>>]
                /\ ~AliasedOn(B, P) =>
                      attempts[a].texts[p] = TextOf(DirectExportTexts(B), P)

\* page 2 of book 1 is aliased to page 1 of book 2, which is not aliased, and
\* resolves to the document of that page
C10_Witness ==
    /\ Resolved # {}
    /\ 2 \in DOMAIN aliases[1]
    /\ aliases[1][2] = <<2, 1>>
    /\ <<2, 1>> \in DOMAIN index
    /\ ~AliasedOn(2, 1)
    /\ attempts[1].texts[2] = DirectExportTexts(2)[1]
    /\ attempts[1].texts[2] # index[<<1, 2>>]

\* the stores alone let book b be exported: it is in the catalog, it has
\* pages, every page resolves to content and every part label can be rendered
Exportable(b) ==
    /\ b \in DOMAIN catalog
    /\ Len(pages[b]) > 0
    /\ ~Incomplete(b, DirectExportTexts(b))
    /\ \A l \in Labels(b) : ~ParseIntThrows(l)

\* the part files of book b, in order
PartFiles(b) ==
    [k \in 1..Cardinality(Labels(b)) |-> <<SafeName(catalog[b].name), SequentialName(k)>>]

\* the books of the failed exports, in the order of the attempts
FailedBooks ==
    LET failed == SelectSeq([k \in 1..Len(attempts) |-> k],
                            LAMBDA k : attempts[k].result # "ok")
    IN  [j \in 1..Len(failed) |-> attempts[failed[j]].book]

BatchMode == args.mode \in {"ids", "all"}

\* no other book of the list is written to the directory of book b
OwnDirectory(b) ==
    \A k \in 1..Len(bookIds) :
        (bookIds[k] # b /\ bookIds[k] \in DOMAIN catalog) =>
            SafeName(catalog[bookIds[k]].name) # SafeName(catalog[b].name)

\* exportBooks has returned or thrown
BatchOver == BatchMode /\ pc \in {"finally", "done"} /\ \A h \in Handles : opens[h] = 1

C3_BatchOutcome ==
    /\ (\E k \in 1..Len(stdout) : stdout[k][1] = "Export complete") => BatchOver
    /\ BatchOver =>
          /\ Len(attempts) = Len(bookIds)
          /\ \A k \in 1..Len(attempts) : attempts[k].book = bookIds[k]
          /\ success = Cardinality({k \in 1..Len(attempts) : attempts[k].result = "ok"})
          /\ success + Len(errors) = Len(bookIds)
          /\ (raised # <<>>) <=> (\E k \in 1..Len(attempts) : attempts[k].result # "ok")
          /\ \A k \in 1..Len(attempts) :
                attempts[k].result = "ok" =>
                   \A j \in 1..Len(attempts[k].written) :
                      attempts[k].written[j] \in DOMAIN files
    /\ (BatchOver /\ pc = "done") =>
          /\ raised # <<>> => exitCode = 1
          /\ (raised = <<>> /\ \A h \in Handles : closes[h] = 1) => exitCode = 0

\* the batch 1, 4, 3 ended with two successes, one recorded failure and exit
\* status 1
C3_Witness ==
    /\ pc = "done"
    /\ bookIds = <<1, 4, 3>>
    /\ success = 2
    /\ Len(errors) = 1
    /\ raised # <<>>
    /\ exitCode = 1
    /\ \A h \in Handles : closes[h] = 1
    /\ \A k \in 1..Len(attempts[3].written) : attempts[3].written[k] \in DOMAIN files

\* C6 as stated: each index reader is opened at most once, and a reader that
\* was opened has been closed exactly once when the process ends.
C6_HandleLifecycle ==
    \A h \in Handles :
        /\ opens[h] <= 1
        /\ closes[h] <= opens[h]
        /\ (pc = "done" /\ opens[h] = 1) => closes[h] = 1

\* C7 as stated: in --stdout mode standard output holds nothing but the one
\* payload.
C7_StdoutPurity ==
    args.mode = "stdout" =>
        /\ \A k \in 1..Len(stdout) : stdout[k][1] = "payload"
        /\ Len(stdout) <= 1

\* C8: in --stdout mode, a book that is missing from the catalog, has no
\* pages or has a page without resolved content makes exportBookToMemory
\* throw: the exception leaves the try block of main, nothing is recorded in
\* a failure list, no payload is printed and the exit status is 1.
C8_StdoutFailFast ==
    (args.mode = "stdout" /\ Len(attempts) = 1) =>
    LET a == attempts[1] IN
    (\/ a.book \notin DOMAIN catalog
     \/ Len(pages[a.book]) = 0
     \/ a.resolved /\ Incomplete(a.book, a.texts)) =>
        /\ a.result = "threw"
        /\ raised # <<>>
        /\ errors = <<>>
        /\ \A k \in 1..Len(stdout) : stdout[k][1] # "payload"
        /\ pc = "done" => exitCode = 1

\* --stdout 5 ended: a page of book 5 has no content, nothing was printed to
\* standard output and the exit status is 1
C8_Witness ==
    /\ pc = "done"
    /\ args.mode = "stdout"
    /\ Len(attempts) = 1
    /\ attempts[1].book = 5
    /\ attempts[1].fault = NoFault
    /\ attempts[1].resolved
    /\ Incomplete(5, attempts[1].texts)
    /\ stdout = <<>>
    /\ exitCode = 1

\* C11: a file export that met no storage fault ended as every export of the
\* same book against the same stores ends, whatever the iteration order of
\* the donor groups: the same outcome and message, the same file names in
\* the same order and the same document under every name.
C11_Determinism ==
    \A a \in 1..Len(attempts) :
        (attempts[a].mode = "files" /\ attempts[a].fault = NoFault) =>
        \A order \in Orders(DonorBooks(aliases[attempts[a].book])) :
            \A again \in {ExportBook(attempts[a].book, NoFault, order, {}, EmptyMap)} :
            /\ (again.result = "dir") <=> (attempts[a].result = "ok")
            /\ again.written = attempts[a].written
            /\ again.texts = attempts[a].texts
            /\ \A k \in 1..Len(again.written) :
                  again.files[again.written[k]] = files[attempts[a].written[k]]
            /\ attempts[a].result = "threw" =>
                  again.msg = CompletenessMessage(attempts[a].book,
                                 MissingPages(pages[attempts[a].book], attempts[a].texts))

\* book 1 was exported with its two pages aliased to two different donor
\* books, so that the donor groups could be iterated in two orders
C11_Witness ==
    /\ Len(attempts) = 1
    /\ attempts[1].mode = "files"
    /\ attempts[1].fault = NoFault
    /\ attempts[1].result = "ok"
    /\ Cardinality(DonorBooks(aliases[1])) = 2
    /\ Len(attempts[1].written) = 2
    /\ \A k \in 1..2 : attempts[1].written[k] \in DOMAIN files

\* fatha, damma and kasra
ShortVowels == {"U+064E", "U+064F", "U+0650"}

\* C12 as stated: after the first step of formatText no short-vowel mark
\* directly precedes a gemination mark and no gemination mark directly
\* precedes a nunation mark.
C12_DiacriticOrder ==
    fmtStep >= 1 =>
        \A k \in 1..(Len(fmt) - 1) :
            /\ ~(fmt[k] \in ShortVowels /\ fmt[k + 1] = Shadda)
            /\ ~(fmt[k] = Shadda /\ fmt[k + 1] \in Tanween)

\* C13 as stated: in the formatted text of an input without the marker
\* character, every colored parenthesized number has one or two digits: a
\* plain (N) of three or more digits is left unstyled after a paragraph
\* break and at the start of the footnote container alike.
C13_DigitGuard ==
    (fmtStep = Len(FormatSteps) /\ fmtIn # Null /\ ~Contains(fmtIn, NotSign)) =>
        \A k \in 1..(Len(fmt) - 1) :
            (fmt[k] = FontOpen /\ fmt[k + 1] = "(") =>
                Span(fmt, k + 2, Digits, Len(fmt)) <= 2

\* every document an export has produced: the files on disk and the
\* documents of the payloads
Documents ==
    {files[path] : path \in DOMAIN files}
    \cup UNION {{attempts[a].docs[k][2] : k \in 1..Len(attempts[a].docs)} :
                   a \in 1..Len(attempts)}

\* the page blocks of a document
PageBlocks(doc) == {doc.html[k] : k \in {j \in 1..Len(doc.html) : doc.html[j].kind = "page"}}

\* the row of the page table a page block was rendered from
RowOf(doc, blk) ==
    pages[doc.book][CHOOSE k \in 1..Len(pages[doc.book]) : pages[doc.book][k].id = blk.id]

\* the digits of a text in order, Arabic-Indic digits by their value
RECURSIVE DigitValues(_)
DigitValues(text) ==
    IF text = Null \/ Len(text) = 0 THEN <<>>
    ELSE (IF Head(text) \in Digits THEN <<DigitValue(Head(text))>>
          ELSE IF Head(text) \in ArabicDigits
               THEN <<CHOOSE d \in 0..9 : ArabicDigit(d) = Head(text)>>
               ELSE <<>>)
         \o DigitValues(Tail(text))

\* the tokens between "(page: " and ")" of a page header
ShownNumber(head) ==
    LET q == CHOOSE k \in 1..Len(head) : head[k] = "<span class='PageNumber'>"
    IN  SubSeq(head, q + 5, Len(head) - 4)

\* the number a sequence of Arabic-Indic digits denotes
RECURSIVE ArabicValue(_)
ArabicValue(ds) ==
    IF Len(ds) = 0 THEN 0
    ELSE 10 * ArabicValue(SubSeq(ds, 1, Len(ds) - 1))
         + (CHOOSE d \in 0..9 : ArabicDigit(d) = ds[Len(ds)])

\* C14: in every document produced, the content of every page holds no
\* Arabic-Indic digit and holds the digits of the raw body and footnote in
\* their order, as Western digits; and the header of every page with a
\* printed number shows Arabic-Indic digits only, without a leading zero,
\* that denote the number.
C14_NumeralRoundTrip ==
    \A doc \in Documents : \A blk \in PageBlocks(doc) :
        /\ \A k \in 1..Len(blk.content) : blk.content[k] \notin ArabicDigits
        /\ DigitValues(blk.content)
             = DigitValues(index[<<doc.book, blk.id>>].body)
               \o DigitValues(index[<<doc.book, blk.id>>].foot)
        /\ RowOf(doc, blk).page # NoNumber =>
             /\ \A k \in 1..Len(ShownNumber(blk.head)) : ShownNumber(blk.head)[k] \in ArabicDigits
             /\ ArabicValue(ShownNumber(blk.head)) = RowOf(doc, blk).page[1]
             /\ Len(ShownNumber(blk.head)) > 1 => ShownNumber(blk.head)[1] # ArabicDigit(0)

\* a document was produced whose page has the printed number 105 and a raw
\* body and a raw footnote with an Arabic-Indic digit each
C14_Witness ==
    \E doc \in Documents : \E blk \in PageBlocks(doc) :
        /\ RowOf(doc, blk).page = <<105>>
        /\ \E k \in 1..Len(index[<<doc.book, blk.id>>].body) :
              index[<<doc.book, blk.id>>].body[k] \in ArabicDigits
        /\ \E k \in 1..Len(index[<<doc.book, blk.id>>].foot) :
              index[<<doc.book, blk.id>>].foot[k] \in ArabicDigits

\* the book is missing from the catalog or has no pages
Fatal(b) == b \notin DOMAIN catalog \/ Len(pages[b]) = 0

\* C15: the batch iteration for a book that is missing from the catalog or
\* has no pages leaves every directory and file as it was, adds exactly one
\* entry, for that book id, to the failure list, counts no success, reads no
\* page content, and the batch goes on with the next id.
C15_PerBookFatal ==
    [][(pc = "batch" /\ i < Len(bookIds) /\ Fatal(bookIds[i + 1])) =>
          /\ dirs' = dirs
          /\ files' = files
          /\ Len(errors') = Len(errors) + 1
          /\ SubSeq(errors', 1, Len(errors)) = errors
          /\ errors'[Len(errors')][1] = bookIds[i + 1]
          /\ success' = success
          /\ Len(attempts') = Len(attempts) + 1
          /\ attempts'[Len(attempts')].book = bookIds[i + 1]
          /\ attempts'[Len(attempts')].result = "null"
          /\ attempts'[Len(attempts')].written = <<>>
          /\ ~attempts'[Len(attempts')].resolved
          /\ pc' = "batch"
          /\ i' = i + 1]_vars

\* the batch 6, 4, 1 ended: book 6 is not in the catalog, book 4 has no
\* pages, each is recorded once, nothing was written for them, and book 1
\* was exported
C15_Witness ==
    /\ pc = "done"
    /\ bookIds = <<6, 4, 1>>
    /\ [k \in 1..Len(errors) |-> errors[k][1]] = <<6, 4>>
    /\ [k \in 1..3 |-> attempts[k].result] = <<"null", "null", "ok">>
    /\ dirs = {SafeName(catalog[1].name)}
    /\ \A path \in DOMAIN files : files[path].book = 1

\* the export met a storage fault while it read the alias table or the
\* documents of a donor book
AliasFault(a) ==
    \/ attempts[a].fault.kind = "aliasSql"
    \/ attempts[a].fault.kind = "indexIO" /\ attempts[a].fault.at >= 2

\* C16 as stated: an export that met a storage fault while reading the alias
\* table or a donor book still got its content mapping from getPageTexts,
\* with the direct document of every page that has no alias row, and ended
\* as the completeness check on that mapping decides: with the completeness
\* message if a page lacks content.
C16_AliasFaultsNonFatal ==
    \A a \in 1..Len(attempts) :
        AliasFault(a) =>
            /\ attempts[a].resolved
            /\ \A p \in DOMAIN GetPageTextsForBook(attempts[a].book) :
                  p \notin DOMAIN aliases[attempts[a].book] =>
                      /\ p \in DOMAIN attempts[a].texts
                      /\ attempts[a].texts[p] = index[<<attempts[a].book, p>>]
            /\ Incomplete(attempts[a].book, attempts[a].texts) =>
                  /\ attempts[a].result = "threw"
                  /\ \/ raised = CompletenessMessage(attempts[a].book,
                                     MissingPages(pages[attempts[a].book], attempts[a].texts))
                     \/ \E k \in 1..Len(errors) :
                           errors[k] = <<attempts[a].book,
                                         CompletenessMessage(attempts[a].book,
                                             MissingPages(pages[attempts[a].book],
                                                          attempts[a].texts))>>

\* the ids of the page blocks of a document, in order
PageIds(doc) ==
    LET blocks == SelectSeq(doc.html, LAMBDA blk : blk.kind = "page")
    IN  [k \in 1..Len(blocks) |-> blocks[k].id]

\* the page ids of the documents at the paths, concatenated in order
RECURSIVE WrittenPageIds(_)
WrittenPageIds(paths) ==
    IF Len(paths) = 0 THEN <<>>
    ELSE PageIds(files[Head(paths)]) \o WrittenPageIds(Tail(paths))

\* C17 as stated: the documents of an exported book, concatenated in index
\* order, hold the pages of the book in the order of the page table, so
\* that every document is a contiguous run of it; pages with the same label
\* that are separated by a page of another label are in different documents.
C17_ContiguousParts ==
    \A a \in 1..Len(attempts) :
        (attempts[a].mode = "files" /\ attempts[a].result = "ok") =>
            WrittenPageIds(attempts[a].written)
                = [k \in 1..Len(pages[attempts[a].book]) |-> pages[attempts[a].book][k].id]

C19_NoPlaceholder ==
    /\ \A doc \in Documents : \A blk \in PageBlocks(doc) :
          ~Contains(blk.content, Placeholder)
    /\ \A a \in 1..Len(attempts) :
          (attempts[a].written # <<>> \/ attempts[a].docs # <<>>) =>
              /\ attempts[a].resolved
              /\ ~Incomplete(attempts[a].book, attempts[a].texts)

\* a payload was produced for a book whose page has no body but a footnote
C19_Witness ==
    /\ Len(attempts) = 1
    /\ attempts[1].mode = "memory"
    /\ attempts[1].docs # <<>>
    /\ index[<<1, 1>>].body \in {Null, <<>>}
    /\ HasText(index[<<1, 1>>].foot)

\* the number of occurrences of a token in a text
Count(text, token) == Cardinality({k \in 1..Len(text) : text[k] = token})

\* the one present field of a page with exactly one of body and footnote
PresentField(doc, blk) ==
    IF HasText(index[<<doc.book, blk.id>>].body) THEN index[<<doc.book, blk.id>>].body
    ELSE index[<<doc.book, blk.id>>].foot

\* C20: the content of a page block rendered from a page with exactly one
\* of body and footnote present is the formatted text of that field, with
\* the closing of the footnote container appended exactly if the formatted
\* text opened one (line feeds as CR LF); it holds no rule and no container
\* opening beyond those of the formatted text.
C20_SingleField ==
    \A doc \in Documents : \A blk \in PageBlocks(doc) :
        (HasText(index[<<doc.book, blk.id>>].body) # HasText(index[<<doc.book, blk.id>>].foot)) =>
            \A formatted \in {FormatText(PresentField(doc, blk))} :
                /\ blk.content = CrLf(formatted \o (IF Contains(formatted, FootnoteOpen)
                                                     THEN CloseInline ELSE <<>>))
                /\ Count(blk.content, Rule) = Count(formatted, Rule)
                /\ Count(blk.content, FootnoteOpen) = Count(formatted, FootnoteOpen)

\* a document was produced for a page without a body whose footnote holds a
\* separator line: its formatted text opened a footnote container and the
\* page content closes it
C20_Witness ==
    \E doc \in Documents : \E blk \in PageBlocks(doc) :
        /\ ~HasText(index[<<doc.book, blk.id>>].body)
        /\ HasText(index[<<doc.book, blk.id>>].foot)
        /\ Contains(index[<<doc.book, blk.id>>].foot, Underscores)
        /\ Count(blk.content, FootnoteOpen) = 1
        /\ SubSeq(blk.content, Len(blk.content) - 1, Len(blk.content)) = CloseInline

\* the title a label calls for: the book name alone for an empty label, the
\* name, " - ", the abbreviation of "part" and the number in Arabic-Indic
\* digits for a label of digits, the name, " - " and the label otherwise
ExpectedTitle(bookName, label) ==
    IF label = Null \/ label = <<>> THEN bookName
    ELSE IF \A k \in 1..Len(label) : label[k] \in Digits
    THEN bookName \o <<" ", "-", " ", "U+062C", "U+0640", " ">>
         \o [k \in 1..Len(StripZeros(label)) |->
                ArabicDigit(CHOOSE d \in 0..9 : Digit(d) = StripZeros(label)[k])]
    ELSE bookName \o <<" ", "-", " ">> \o label

\* the part name shown in a page header
ShownPartName(head) ==
    LET q == CHOOSE k \in 1..Len(head) : head[k] = "<span class='PartName'>"
        e == CHOOSE k \in (q + 1)..Len(head) :
                 head[k] = "</span>" /\ \A j \in (q + 1)..(k - 1) : head[j] # "</span>"
    IN  SubSeq(head, q + 1, e - 1)

\* C21: the title of every document produced, and the part name in the
\* header of each of its pages, is the title the part label calls for; and
\* an export whose pages all resolved to content and whose writes met no
\* fault succeeds, whatever the part labels of the book are.
C21_TitleRule ==
    /\ \A doc \in Documents :
          /\ doc.html[1].title = ExpectedTitle(catalog[doc.book].name, doc.part)
          /\ \A blk \in PageBlocks(doc) :
                ShownPartName(blk.head) = ExpectedTitle(catalog[doc.book].name, doc.part)
    /\ \A a \in 1..Len(attempts) :
          (/\ attempts[a].resolved
           /\ ~Incomplete(attempts[a].book, attempts[a].texts)
           /\ attempts[a].fault.kind # "writeIO")
          => attempts[a].result = "ok"

\* the positions in the page list of book b of the pages that lack content
\* in texts
Violating(b, texts) == {k \in 1..Len(pages[b]) : Lacks(texts, pages[b][k].id)}

\* the ids of the first n violating pages of book b, in page-list order
FirstViolating(b, texts, n) ==
    [j \in 1..n |->
        pages[b][CHOOSE k \in Violating(b, texts) :
                     Cardinality({m \in Violating(b, texts) : m < k}) = j - 1].id]

\* the error a violating book must end with
ExpectedError(b, texts) ==
    <<"pages with no content available", b, Cardinality(Violating(b, texts)),
      FirstViolating(b, texts, IF Cardinality(Violating(b, texts)) < 10
                               THEN Cardinality(Violating(b, texts)) ELSE 10)>>

\* C22: when an export resolved the content of a book and v >= 1 of its
\* pages lack content (no entry, or body and footnote both null or empty),
\* the export fails with the completeness error that names the book, gives
\* the count v and lists the ids of the first min(v, 10) violating pages in
\* page-list order: the exception of the stdout mode, the recorded failure
\* of the batch.
C22_CompletenessError ==
    \A a \in 1..Len(attempts) :
        (attempts[a].resolved /\ Violating(attempts[a].book, attempts[a].texts) # {})
        => /\ attempts[a].result = "threw"
           /\ IF attempts[a].mode = "memory"
              THEN raised = ExpectedError(attempts[a].book, attempts[a].texts)
              ELSE \E e \in 1..Len(errors) :
                      errors[e] = <<attempts[a].book,
                                    ExpectedError(attempts[a].book, attempts[a].texts)>>

\* an export resolved the content of a book of which more than 10 pages
\* lack content, among them one without an entry, one with two null fields
\* and one with two empty fields
C22_Witness ==
    \E a \in 1..Len(attempts) :
        /\ attempts[a].resolved
        /\ attempts[a].result = "threw"
        /\ Cardinality(Violating(attempts[a].book, attempts[a].texts)) > 10
        /\ \E k \in Violating(attempts[a].book, attempts[a].texts) :
              pages[attempts[a].book][k].id \notin DOMAIN attempts[a].texts
        /\ \E id \in DOMAIN attempts[a].texts :
              attempts[a].texts[id] = [body |-> Null, foot |-> Null]
        /\ \E id \in DOMAIN attempts[a].texts :
              attempts[a].texts[id] = [body |-> <<>>, foot |-> <<>>]

LineBreaks == {"U+000A", "U+000D"}

\* the positions of the separator lines of a raw text: nine underscores
\* between two line breaks
Separators(text) ==
    {k \in 2..(Len(text) - 1) :
        text[k] = Underscores /\ text[k - 1] \in LineBreaks /\ text[k + 1] \in LineBreaks}

\* the position of the first separator line of a raw text that has one
FirstSeparatorAt(text) ==
    CHOOSE k \in Separators(text) : \A j \in Separators(text) : k <= j

\* the position of the first token `token` of a text
First(text, token) ==
    CHOOSE k \in 1..Len(text) : text[k] = token /\ \A j \in 1..(k - 1) : text[j] # token

\* C23: a footnote container is opened by formatText only once the text
\* holds no line break any more; and in the formatted text of an input with
\* separator lines (and without a container of its own) there is exactly one
\* container opening, it follows the horizontal rule, it stands where the
\* first separator line stood, and every later line of underscores is still
\* there; an input without a separator line gets no container.
C23_FirstSeparatorOnly ==
    (fmtIn # Null /\ ~Contains(fmtIn, FootnoteOpen)) =>
        /\ Contains(fmt, FootnoteOpen) =>
              /\ fmtStep >= 9
              /\ \A k \in 1..Len(fmt) : fmt[k] \notin LineBreaks
        /\ (fmtStep = Len(FormatSteps) /\ Separators(fmtIn) = {}) =>
              /\ ~Contains(fmt, FootnoteOpen)
              /\ Count(fmt, Underscores) = Count(fmtIn, Underscores)
        /\ (fmtStep = Len(FormatSteps) /\ Separators(fmtIn) # {}) =>
              /\ Count(fmt, FootnoteOpen) = 1
              /\ Count(fmt, Rule) = 1
              /\ First(fmt, Rule) + 1 = First(fmt, FootnoteOpen)
              /\ Count(fmt, Underscores) = Count(fmtIn, Underscores) - 1
              /\ Count(SubSeq(fmt, 1, First(fmt, Rule)), Underscores)
                   = Count(SubSeq(fmtIn, 1, FirstSeparatorAt(fmtIn) - 1), Underscores)

\* formatText has finished on a text with two separator lines that do not
\* share a line break
C23_Witness ==
    /\ fmtStep = Len(FormatSteps)
    /\ fmtIn # Null
    /\ \E j, k \in Separators(fmtIn) : k > j + 2
    /\ Count(fmt, FootnoteOpen) = 1
    /\ Count(fmt, Underscores) = 1

\* C24: the formatted text of any input holds no footnote-marker character.
C24_NoStrayMarker ==
    (fmtStep = Len(FormatSteps) /\ fmtIn # Null) => ~Contains(fmt, NotSign)

\* the number of digits, Western or Arabic-Indic, from position pos on
DigitRun(text, pos) == Span(text, pos, Digits \cup ArabicDigits, Len(text))

\* a reference "(", marker character, digits, ")" starts at position k
IsReferenceAt(text, k) ==
    /\ text[k] = "("
    /\ k + 3 <= Len(text)
    /\ text[k + 1] = NotSign
    /\ DigitRun(text, k + 2) > 0
    /\ k + 2 + DigitRun(text, k + 2) <= Len(text)
    /\ text[k + 2 + DigitRun(text, k + 2)] = ")"

\* the reference at position k of a raw text is inline: it is not the start
\* of the text and does not follow a line break, directly or after one space
\* (a line break ends a paragraph or the first separator line)
InlineAt(text, k) ==
    /\ k > 1
    /\ text[k - 1] \notin LineBreaks
    /\ ~(k > 2 /\ text[k - 1] = " " /\ text[k - 2] \in LineBreaks)

\* the positions of a text, in order, that satisfy a test given as a set
Ascending(S) ==
    [j \in 1..Cardinality(S) |-> CHOOSE k \in S : Cardinality({m \in S : m < k}) = j - 1]

\* the references of a raw text in order: the number in Western digits and
\* whether the reference is inline
ExpectedReferences(text) ==
    [j \in 1..Cardinality({k \in 1..Len(text) : IsReferenceAt(text, k)}) |->
        [number |-> [d \in 1..DigitRun(text,
                            Ascending({k \in 1..Len(text) : IsReferenceAt(text, k)})[j] + 2) |->
                        (LET c == text[Ascending({k \in 1..Len(text) :
                                                    IsReferenceAt(text, k)})[j] + 1 + d]
                         IN  IF c \in ArabicDigits
                             THEN Digit(CHOOSE v \in 0..9 : ArabicDigit(v) = c) ELSE c)],
         inline |-> InlineAt(text, Ascending({k \in 1..Len(text) : IsReferenceAt(text, k)})[j])]]

\* a colored parenthesized number starts at position k of a formatted text
IsColoredAt(text, k) ==
    /\ text[k] = FontOpen
    /\ k + 4 <= Len(text)
    /\ text[k + 1] = "("
    /\ Span(text, k + 2, Digits, Len(text)) > 0
    /\ k + 3 + Span(text, k + 2, Digits, Len(text)) <= Len(text)
    /\ text[k + 2 + Span(text, k + 2, Digits, Len(text))] = ")"
    /\ text[k + 3 + Span(text, k + 2, Digits, Len(text))] = FontClose

\* the colored number at position k is wrapped in a superscript
IsSuperscriptAt(text, k) ==
    /\ k > 1
    /\ text[k - 1] = "<sup>"
    /\ k + 4 + Span(text, k + 2, Digits, Len(text)) <= Len(text)
    /\ text[k + 4 + Span(text, k + 2, Digits, Len(text))] = "</sup>"

\* the colored parenthesized numbers of a formatted text in order
StyledReferences(text) ==
    [j \in 1..Cardinality({k \in 1..Len(text) : IsColoredAt(text, k)}) |->
        [number |-> SubSeq(text,
                        Ascending({k \in 1..Len(text) : IsColoredAt(text, k)})[j] + 2,
                        Ascending({k \in 1..Len(text) : IsColoredAt(text, k)})[j] + 1
                        + Span(text, Ascending({k \in 1..Len(text) : IsColoredAt(text, k)})[j] + 2,
                               Digits, Len(text))),
         inline |-> IsSuperscriptAt(text,
                        Ascending({k \in 1..Len(text) : IsColoredAt(text, k)})[j])]]

\* no "(" of the text opens a parenthesized number without the marker
NoPlainNumber(text) ==
    \A k \in 1..Len(text) : (text[k] = "(" /\ k < Len(text)) => text[k + 1] \notin Digits \cup ArabicDigits

\* C25: once formatText has styled the references, no reference is left in
\* the text; right after that step, and until the end if the input has no
\* plain parenthesized number, the colored parenthesized numbers of the text
\* are, in order, the references of the input with their numbers in Western
\* digits, and one is wrapped in a superscript exactly if the reference is
\* inline; at every later step the superscripts of the text are those of the
\* inline references.
C25_ReferenceStyling ==
    (fmtIn # Null /\ fmtStep >= 10 /\ ~Contains(fmtIn, FontOpen) /\ ~Contains(fmtIn, "<sup>")) =>
        /\ \A k \in 1..Len(fmt) : ~IsReferenceAt(fmt, k)
        /\ (fmtStep = 10 \/ NoPlainNumber(fmtIn)) =>
              StyledReferences(fmt) = ExpectedReferences(fmtIn)
        /\ SelectSeq(StyledReferences(fmt), LAMBDA r : r.inline)
             = SelectSeq(ExpectedReferences(fmtIn), LAMBDA r : r.inline)
        /\ Count(fmt, "<sup>") = Len(SelectSeq(ExpectedReferences(fmtIn), LAMBDA r : r.inline))

\* formatText has finished on a text with an inline reference and one at
\* the start of a paragraph, one of them in Arabic-Indic digits
C25_Witness ==
    /\ fmtStep = Len(FormatSteps)
    /\ fmtIn # Null
    /\ \E j, k \in 1..Len(fmtIn) :
          /\ IsReferenceAt(fmtIn, j) /\ InlineAt(fmtIn, j)
          /\ IsReferenceAt(fmtIn, k) /\ ~InlineAt(fmtIn, k) /\ k > 1
          /\ fmtIn[k + 2] \in ArabicDigits
    /\ Len(StyledReferences(fmt)) = 2

\* the line breaks of a raw text: every line feed, and every carriage
\* return that no line feed follows
LineBreakCount(text) ==
    Cardinality({k \in 1..Len(text) :
        \/ text[k] = "U+000A"
        \/ text[k] = "U+000D" /\ ~(k < Len(text) /\ text[k + 1] = "U+000A")})

\* C26: once the line breaks are converted, the text holds one paragraph
\* break for every CRLF, LF and CR of the input (less the two that the
\* separator rule consumes), and once the repeated breaks are collapsed, no
\* two paragraph breaks are directly adjacent.
C26_BlankLineCollapse ==
    (fmtIn # Null /\ ~Contains(fmtIn, Break) /\ ~Contains(fmtIn, FootnoteOpen)) =>
        /\ fmtStep >= 6 =>
              Count(fmt, Break)
                = LineBreakCount(fmtIn) - (IF Contains(fmt, FootnoteOpen) THEN 2 ELSE 0)
        /\ fmtStep >= 7 =>
              \A k \in 1..(Len(fmt) - 1) : ~(fmt[k] = Break /\ fmt[k + 1] = Break)

\* C27: in the content of every page block of every document produced, the
\* footnote container is opened as often as a container is closed.
C27_ContainerBalance ==
    \A doc \in Documents : \A blk \in PageBlocks(doc) :
        Count(blk.content, FootnoteOpen) = Count(blk.content, "</div>")

\* C28: in a batch, the exports of two different books write no common
\* path, and every file in the directory of a successfully exported book is
\* a document of that book.
C28_NoCrossBookOverwrite ==
    BatchMode =>
        /\ \A a, c \in 1..Len(attempts) :
              attempts[a].book # attempts[c].book =>
                  SeqToSet(attempts[a].written) \cap SeqToSet(attempts[c].written) = {}
        /\ \A a \in 1..Len(attempts) :
              attempts[a].result = "ok" =>
                  \A path \in DOMAIN files :
                      path[1] = SafeName(catalog[attempts[a].book].name) =>
                          files[path].book = attempts[a].book

\* the file names of a list of written paths, and of a list of payload entries
NamesWritten(written) == [k \in 1..Len(written) |-> written[k][2]]
NamesReturned(docs) == [k \in 1..Len(docs) |-> docs[k][1]]

\* C29: the export just attempted, if it met no storage fault, agrees with
\* the export of the same book in the other mode on the same stores: both
\* succeed or both fail, and if they succeed the file names are the same in
\* the same order and under each name the document is the same.
C29_ModeEquivalence ==
    (Len(attempts) > 0 /\ Last(attempts).fault = NoFault) =>
        \A order \in Orders(DonorBooks(aliases[Last(attempts).book])) :
            IF Last(attempts).mode = "files"
            THEN \A m \in {ExportBookToMemory(Last(attempts).book, NoFault, order)} :
                    /\ (Last(attempts).result = "ok") = ~m.threw
                    /\ Last(attempts).result = "ok" =>
                          /\ NamesWritten(Last(attempts).written) = NamesReturned(m.result)
                          /\ \A k \in 1..Len(m.result) :
                                files[Last(attempts).written[k]] = m.result[k][2]
            ELSE \A f \in {ExportBook(Last(attempts).book, NoFault, order, {}, EmptyMap)} :
                    /\ (Last(attempts).result = "ok") = (f.result = "dir")
                    /\ Last(attempts).result = "ok" =>
                          /\ NamesWritten(f.written) = NamesReturned(Last(attempts).docs)
                          /\ \A k \in 1..Len(f.written) :
                                f.files[f.written[k]] = Last(attempts).docs[k][2]

\* a book of three parts, with a page that has a body only and one that has
\* a footnote only, was just exported to memory without a fault
C29_Witness ==
    /\ Len(attempts) > 0
    /\ Last(attempts).mode = "memory"
    /\ Last(attempts).fault = NoFault
    /\ Last(attempts).result = "ok"
    /\ Len(Last(attempts).docs) = 3
    /\ \E id \in DOMAIN Last(attempts).texts : Last(attempts).texts[id].foot = Null
    /\ \E id \in DOMAIN Last(attempts).texts : Last(attempts).texts[id].body = <<>>

\* C30: a file-based export that failed has written no file, and one that
\* has written a file has written one file for every part of the book and
\* has succeeded.
C30_AllOrNothing ==
    \A a \in 1..Len(attempts) :
        attempts[a].mode = "files" =>
            /\ attempts[a].result # "ok" => attempts[a].written = <<>>
            /\ attempts[a].written # <<>> =>
                  /\ attempts[a].result = "ok"
                  /\ Len(attempts[a].written) = Cardinality(Labels(attempts[a].book))
====
